---------------------------- MODULE Spec2Model ----------------------------
(***************************************************************************)
(* ObjectTracker of src/src/object_tracker.py as a state machine.          *)
(*                                                                         *)
(* Numbers.  Box coordinates are integers.  A center is kept as TWICE the  *)
(* midpoint, <<x1 + x2, y1 + y2>>, so that it stays an integer; a distance *)
(* test sqrt(dx^2 + dy^2) < t is then dx2^2 + dy2^2 < 4 t^2 on the doubled *)
(* coordinates.  An IoU is kept as the pair <<intersection, union>> and    *)
(* compared by cross-multiplication; iou_threshold and confidences are in  *)
(* hundredths (0.2 is 20).                                                 *)
(***************************************************************************)
EXTENDS Integers, Sequences, FiniteSets, TLC

VARIABLES
    max_disappeared,            \* self.max_disappeared
    iou_threshold,              \* self.iou_threshold, in hundredths
    spatial_threshold,          \* self.spatial_threshold
    next_object_id,             \* self.next_object_id
    tracked_objects,            \* self.tracked_objects: dict in insertion order,
                                \*   a sequence of TrackedObject records
    disappeared_counts,         \* self.disappeared_counts: track_id -> int
    frame_count,                \* self.frame_count
    unique_object_frequencies,  \* self.unique_object_frequencies: class -> int
    seen_objects,               \* self.seen_objects: set of <<class, id>> keys
    class_track_history,        \* self.class_track_history: class -> set of ids
    unique_object_positions,    \* self.unique_object_positions (never written)
    object_lifespans,           \* self.object_lifespans: track_id -> record
    counted_objects,            \* self.counted_objects: set of ids
    detections,                 \* argument of the last update() call
    result,                     \* value returned by the last update() call
    issued,                     \* history: the values returned by
                                \*   _create_new_track since __init__ / reset()
    calls,                      \* history: the calls a logging caller has made
                                \*   on this tracker, with what they returned
    argsort_order,              \* what np.argsort made of each IoU matrix it
                                \*   was given by a caller that relies on it
    other                       \* a second ObjectTracker instance, with the
                                \*   history of the calls made on it

vars == <<max_disappeared, iou_threshold, spatial_threshold, next_object_id,
          tracked_objects, disappeared_counts, frame_count,
          unique_object_frequencies, seen_objects, class_track_history,
          unique_object_positions, object_lifespans, counted_objects,
          detections, result, issued, calls, argsort_order, other>>

\* what only the callers that log their calls, replay a run or use a second
\* instance change
harness == <<calls, argsort_order, other>>

-----------------------------------------------------------------------------
(* Program constants                                                       *)

DefaultMaxDisappeared == 30
DefaultIouThreshold == 20
DefaultSpatialThreshold == 100
HighConfidenceIou == 50
DuplicateLookback == 10
RateLimitWindow == 5
RateLimitCount == 3

-----------------------------------------------------------------------------
(* Dictionaries                                                            *)

EmptyDict == <<>>

\* d[k] of a defaultdict(int) / a dict read with a default
Get(d, k, default) == IF k \in DOMAIN d THEN d[k] ELSE default

\* d[k] = v
Put(d, k, v) == [x \in DOMAIN d \cup {k} |-> IF x = k THEN v ELSE d[x]]

\* del d[k] for every k in ks
Without(d, ks) == [x \in DOMAIN d \ ks |-> d[x]]

RECURSIVE SumOver(_, _)
SumOver(d, ks) ==
    IF ks = {} THEN 0
    ELSE LET k == CHOOSE x \in ks : TRUE IN d[k] + SumOver(d, ks \ {k})

\* the keys of self.tracked_objects, in insertion order
TrackIds(objs) == [i \in DOMAIN objs |-> objs[i].track_id]

ActiveIds(objs) == {objs[i].track_id : i \in DOMAIN objs}

\* self.tracked_objects[track_id]
TrackOf(objs, track_id) ==
    objs[CHOOSE i \in DOMAIN objs : objs[i].track_id = track_id]

\* self.tracked_objects[obj.track_id] = obj: an existing key keeps its place
TrackPut(objs, obj) ==
    IF obj.track_id \in ActiveIds(objs)
    THEN [i \in DOMAIN objs |->
            IF objs[i].track_id = obj.track_id THEN obj ELSE objs[i]]
    ELSE Append(objs, obj)

-----------------------------------------------------------------------------
(* Geometry                                                                *)

Max(a, b) == IF a >= b THEN a ELSE b
Min(a, b) == IF a <= b THEN a ELSE b

\* ((x1 + x2) / 2, (y1 + y2) / 2), doubled
Center(bbox) == <<bbox[1] + bbox[3], bbox[2] + bbox[4]>>

\* np.sqrt((c[0]-d[0])**2 + (c[1]-d[1])**2) < threshold, on doubled centers
CloserThan(c, d, threshold) ==
    (c[1] - d[1]) * (c[1] - d[1]) + (c[2] - d[2]) * (c[2] - d[2])
        < 4 * threshold * threshold

Area(b) == (b[3] - b[1]) * (b[4] - b[2])

Intersection(b1, b2) ==
    Max(0, Min(b1[3], b2[3]) - Max(b1[1], b2[1]))
        * Max(0, Min(b1[4], b2[4]) - Max(b1[2], b2[2]))

\* a slip: an empty union taken as full overlap
IouOneOnEmptyUnion(b1, b2) ==
    LET inter == Intersection(b1, b2)
        union == Area(b1) + Area(b2) - inter
    IN  IF union = 0 THEN <<1, 1>>
        ELSE IF union < 0 THEN <<0 - inter, 0 - union>>
        ELSE <<inter, union>>

\* one entry of the IoU matrix: <<numerator, denominator>>, denominator > 0;
\* 0 where the union is 0
Iou(b1, b2) ==
    LET inter == Intersection(b1, b2)
        union == Area(b1) + Area(b2) - inter
    IN  IF union = 0 THEN <<0, 1>>
        ELSE IF union < 0 THEN <<0 - inter, 0 - union>>
        ELSE <<inter, union>>

\* iou > pct / 100
IouAbove(iou, pct) == iou[1] * 100 > pct * iou[2]

\* iou1 > iou2
IouGreater(iou1, iou2) == iou1[1] * iou2[2] > iou2[1] * iou1[2]

\* iou_matrix[t, d] for track boxes boxes1 and detection boxes boxes2
CalculateIouMatrix(boxes1, boxes2) ==
    [p \in (DOMAIN boxes1) \X (DOMAIN boxes2) |-> Iou(boxes1[p[1]], boxes2[p[2]])]

-----------------------------------------------------------------------------
(* The tracker object, as a record of its attributes                        *)

Self ==
    [max_disappeared |-> max_disappeared,
     iou_threshold |-> iou_threshold,
     spatial_threshold |-> spatial_threshold,
     next_object_id |-> next_object_id,
     tracked_objects |-> tracked_objects,
     disappeared_counts |-> disappeared_counts,
     frame_count |-> frame_count,
     unique_object_frequencies |-> unique_object_frequencies,
     seen_objects |-> seen_objects,
     class_track_history |-> class_track_history,
     unique_object_positions |-> unique_object_positions,
     object_lifespans |-> object_lifespans,
     counted_objects |-> counted_objects,
     issued |-> issued]

\* the attributes after a call that leaves the tracker as s
Becomes(s) ==
    /\ max_disappeared' = s.max_disappeared
    /\ iou_threshold' = s.iou_threshold
    /\ spatial_threshold' = s.spatial_threshold
    /\ next_object_id' = s.next_object_id
    /\ tracked_objects' = s.tracked_objects
    /\ disappeared_counts' = s.disappeared_counts
    /\ frame_count' = s.frame_count
    /\ unique_object_frequencies' = s.unique_object_frequencies
    /\ seen_objects' = s.seen_objects
    /\ class_track_history' = s.class_track_history
    /\ unique_object_positions' = s.unique_object_positions
    /\ object_lifespans' = s.object_lifespans
    /\ counted_objects' = s.counted_objects
    /\ issued' = s.issued

\* ObjectTracker.__init__
NewTracker(maxDisappeared, iouThreshold) ==
    [max_disappeared |-> maxDisappeared,
     iou_threshold |-> iouThreshold,
     spatial_threshold |-> DefaultSpatialThreshold,
     next_object_id |-> 1,
     tracked_objects |-> <<>>,
     disappeared_counts |-> EmptyDict,
     frame_count |-> 0,
     unique_object_frequencies |-> EmptyDict,
     seen_objects |-> {},
     class_track_history |-> EmptyDict,
     unique_object_positions |-> EmptyDict,
     object_lifespans |-> EmptyDict,
     counted_objects |-> {},
     issued |-> <<>>]

\* a slip: reset() leaves next_object_id as it is
ResetTrackerKeepingNextId(s) ==
    [s EXCEPT !.tracked_objects = <<>>,
              !.disappeared_counts = EmptyDict,
              !.unique_object_frequencies = EmptyDict,
              !.seen_objects = {},
              !.class_track_history = EmptyDict,
              !.unique_object_positions = EmptyDict,
              !.object_lifespans = EmptyDict,
              !.counted_objects = {},
              !.frame_count = 0,
              !.issued = <<>>]

\* a slip: reset() leaves the lifespan records
ResetTrackerKeepingRecords(s) ==
    [s EXCEPT !.tracked_objects = <<>>,
              !.disappeared_counts = EmptyDict,
              !.unique_object_frequencies = EmptyDict,
              !.seen_objects = {},
              !.class_track_history = EmptyDict,
              !.unique_object_positions = EmptyDict,
              !.counted_objects = {},
              !.next_object_id = 1,
              !.frame_count = 0,
              !.issued = <<>>]

\* ObjectTracker.reset: the tracker after it
ResetTracker(s) ==
    [s EXCEPT !.tracked_objects = <<>>,
              !.disappeared_counts = EmptyDict,
              !.unique_object_frequencies = EmptyDict,
              !.seen_objects = {},
              !.class_track_history = EmptyDict,
              !.unique_object_positions = EmptyDict,
              !.object_lifespans = EmptyDict,
              !.counted_objects = {},
              !.next_object_id = 1,
              !.frame_count = 0,
              !.issued = <<>>]

\* an ObjectTracker instance beside the one of the variables, and the calls
\* made on it
Instance(s) == [tracker |-> s, calls |-> <<>>]

\* a slip: the box (and with it the center) of a matched track is not updated
TrackedObjectUpdateStaleBox(obj, bbox, confidence, frame_num) ==
    [obj EXCEPT !.confidence = confidence,
                !.last_seen_frame = frame_num,
                !.frames_tracked = @ + 1]

\* a slip: the confidence of a matched track is not updated
TrackedObjectUpdateKeepingConfidence(obj, bbox, confidence, frame_num) ==
    [obj EXCEPT !.bbox = bbox,
                !.last_seen_frame = frame_num,
                !.frames_tracked = @ + 1,
                !.center = Center(bbox)]

\* TrackedObject.update
TrackedObjectUpdate(obj, bbox, confidence, frame_num) ==
    [obj EXCEPT !.bbox = bbox,
                !.confidence = confidence,
                !.last_seen_frame = frame_num,
                !.frames_tracked = @ + 1,
                !.center = Center(bbox)]

\* a slip: the birth frame is not compared with the cutoff
GetRecentlyLostTracksAnyAge(s, class_name, frames_back) ==
    {track_id \in DOMAIN s.object_lifespans :
        /\ s.object_lifespans[track_id].class_name = class_name
        /\ track_id \notin ActiveIds(s.tracked_objects)
        /\ s.object_lifespans[track_id].counted}

\* a slip: a record born in the cutoff frame itself is left out
GetRecentlyLostTracksAfterCutoff(s, class_name, frames_back) ==
    LET cutoff_frame == Max(0, s.frame_count - frames_back)
    IN  {track_id \in DOMAIN s.object_lifespans :
            /\ s.object_lifespans[track_id].class_name = class_name
            /\ track_id \notin ActiveIds(s.tracked_objects)
            /\ s.object_lifespans[track_id].counted
            /\ s.object_lifespans[track_id].birth_frame > cutoff_frame}

\* ObjectTracker._get_recently_lost_tracks: the ids of the records returned
GetRecentlyLostTracks(s, class_name, frames_back) ==
    LET cutoff_frame == Max(0, s.frame_count - frames_back)
    IN  {track_id \in DOMAIN s.object_lifespans :
            /\ s.object_lifespans[track_id].class_name = class_name
            /\ track_id \notin ActiveIds(s.tracked_objects)
            /\ s.object_lifespans[track_id].counted
            /\ s.object_lifespans[track_id].birth_frame >= cutoff_frame}

\* Check 1 of _should_count_as_new_object: a recently lost track is nearby
RecoveryCheck(s, detection) ==
    \E track_id \in GetRecentlyLostTracks(s, detection.class_name, DuplicateLookback) :
        CloserThan(Center(detection.box),
                   s.object_lifespans[track_id].initial_position,
                   s.spatial_threshold)

\* a slip: the 50 of _check_for_potential_duplicates instead of the threshold
OverlapCheckWithin50(s, detection, track_id) ==
    \E i \in DOMAIN s.tracked_objects :
        /\ s.tracked_objects[i].track_id # track_id
        /\ s.tracked_objects[i].class_name = detection.class_name
        /\ CloserThan(Center(detection.box), s.tracked_objects[i].center, 50)

\* a slip: the new track, already in tracked_objects, is not skipped
OverlapCheckWithSelf(s, detection, track_id) ==
    \E i \in DOMAIN s.tracked_objects :
        /\ s.tracked_objects[i].class_name = detection.class_name
        /\ CloserThan(Center(detection.box), s.tracked_objects[i].center,
                      s.spatial_threshold)

\* a slip: only the tracks seen in the current frame are looked at
OverlapCheckSeenOnly(s, detection, track_id) ==
    \E i \in DOMAIN s.tracked_objects :
        /\ s.tracked_objects[i].track_id # track_id
        /\ s.tracked_objects[i].class_name = detection.class_name
        /\ Get(s.disappeared_counts, s.tracked_objects[i].track_id, 0) = 0
        /\ CloserThan(Center(detection.box), s.tracked_objects[i].center,
                      s.spatial_threshold)

\* Check 2: another active track of the class is nearby
OverlapCheck(s, detection, track_id) ==
    \E i \in DOMAIN s.tracked_objects :
        /\ s.tracked_objects[i].track_id # track_id
        /\ s.tracked_objects[i].class_name = detection.class_name
        /\ CloserThan(Center(detection.box), s.tracked_objects[i].center,
                      s.spatial_threshold)

\* a slip: the counted records of every class are taken
RecentNewObjectsOfAnyClass(s, class_name) ==
    Cardinality({track_id \in DOMAIN s.object_lifespans :
        /\ s.object_lifespans[track_id].counted
        /\ s.frame_count - s.object_lifespans[track_id].birth_frame < RateLimitWindow})

\* a slip: the window is one frame short
RecentNewObjectsShortWindow(s, class_name) ==
    Cardinality({track_id \in DOMAIN s.object_lifespans :
        /\ s.object_lifespans[track_id].class_name = class_name
        /\ s.object_lifespans[track_id].counted
        /\ s.frame_count - s.object_lifespans[track_id].birth_frame < RateLimitWindow - 1})

\* Check 3: recent_new_objects
RecentNewObjects(s, class_name) ==
    Cardinality({track_id \in DOMAIN s.object_lifespans :
        /\ s.object_lifespans[track_id].class_name = class_name
        /\ s.object_lifespans[track_id].counted
        /\ s.frame_count - s.object_lifespans[track_id].birth_frame < RateLimitWindow})

\* a slip: > instead of >=
RateLimitCheckAbove(s, detection) ==
    RecentNewObjects(s, detection.class_name) > RateLimitCount

\* Check 3: the limit is reached
RateLimitCheck(s, detection) ==
    RecentNewObjects(s, detection.class_name) >= RateLimitCount

\* a slip: check 3 is left out
ShouldCountIgnoringRateLimit(s, detection, track_id) ==
    /\ ~RecoveryCheck(s, detection)
    /\ ~OverlapCheck(s, detection, track_id)

\* ObjectTracker._should_count_as_new_object
ShouldCountAsNewObject(s, detection, track_id) ==
    /\ ~RecoveryCheck(s, detection)
    /\ ~OverlapCheck(s, detection, track_id)
    /\ ~RateLimitCheck(s, detection)

\* a slip: the counter is left as it is
AdvanceIdStuck(next_id) == next_id

\* line 152: self.next_object_id += 1
AdvanceId(next_id) == next_id + 1

\* ObjectTracker._create_new_track; the id returned is appended to s.issued
CreateNewTrack(s, detection) ==
    LET track_id == s.next_object_id
        class_name == detection.class_name
        center == Center(detection.box)
        tracked_obj ==
            [track_id |-> track_id,
             class_name |-> class_name,
             confidence |-> detection.confidence,
             bbox |-> detection.box,
             last_seen_frame |-> s.frame_count,
             first_seen_frame |-> s.frame_count,
             frames_tracked |-> 1,
             center |-> center]
        s1 == [s EXCEPT !.next_object_id = AdvanceId(@),
                        !.tracked_objects = TrackPut(@, tracked_obj),
                        !.disappeared_counts = Put(@, track_id, 0)]
        should_count == ShouldCountAsNewObject(s1, detection, track_id)
        s2 == IF should_count
              THEN [s1 EXCEPT
                      !.unique_object_frequencies =
                          Put(@, class_name, Get(@, class_name, 0) + 1),
                      !.counted_objects = @ \cup {track_id}]
              ELSE s1
    IN  [s2 EXCEPT
           !.object_lifespans =
               Put(@, track_id, [class_name |-> class_name,
                                 birth_frame |-> s.frame_count,
                                 counted |-> should_count,
                                 initial_position |-> center]),
           !.seen_objects = @ \cup {<<class_name, track_id>>},
           !.class_track_history =
               Put(@, class_name, Get(@, class_name, {}) \cup {track_id}),
           !.issued = Append(@, track_id)]

\* a slip: the counter of a lost track is deleted, the track is kept
RemoveLostTracksCountersOnly(s) ==
    LET to_remove == {track_id \in DOMAIN s.disappeared_counts :
                        s.disappeared_counts[track_id] > s.max_disappeared}
    IN  [s EXCEPT !.disappeared_counts = Without(@, to_remove)]

\* a slip: a track is removed one frame late
RemoveLostTracksLate(s) ==
    LET to_remove == {track_id \in DOMAIN s.disappeared_counts :
                        s.disappeared_counts[track_id] > s.max_disappeared + 1}
    IN  [s EXCEPT
           !.tracked_objects = SelectSeq(@, LAMBDA obj : obj.track_id \notin to_remove),
           !.disappeared_counts = Without(@, to_remove)]

\* a slip: the lifespan record goes with the track
RemoveLostTracksWithRecords(s) ==
    LET to_remove == {track_id \in DOMAIN s.disappeared_counts :
                        s.disappeared_counts[track_id] > s.max_disappeared}
    IN  [s EXCEPT
           !.tracked_objects = SelectSeq(@, LAMBDA obj : obj.track_id \notin to_remove),
           !.disappeared_counts = Without(@, to_remove),
           !.object_lifespans = Without(@, to_remove)]

\* a slip: a track is removed as soon as its counter reaches max_disappeared
RemoveLostTracksEarly(s) ==
    LET to_remove == {track_id \in DOMAIN s.disappeared_counts :
                        s.disappeared_counts[track_id] >= s.max_disappeared}
    IN  [s EXCEPT
           !.tracked_objects = SelectSeq(@, LAMBDA obj : obj.track_id \notin to_remove),
           !.disappeared_counts = Without(@, to_remove)]

\* ObjectTracker._remove_lost_tracks
RemoveLostTracks(s) ==
    LET to_remove == {track_id \in DOMAIN s.disappeared_counts :
                        s.disappeared_counts[track_id] > s.max_disappeared}
    IN  [s EXCEPT
           !.tracked_objects = SelectSeq(@, LAMBDA obj : obj.track_id \notin to_remove),
           !.disappeared_counts = Without(@, to_remove)]

\* self.disappeared_counts[track_id] += 1 for every id of the sequence ids
RECURSIVE IncrementDisappeared(_, _)
IncrementDisappeared(counts, ids) ==
    IF ids = <<>> THEN counts
    ELSE IncrementDisappeared(
            Put(counts, Head(ids), Get(counts, Head(ids), 0) + 1), Tail(ids))

\* a slip: the empty frame ages the tracks but evicts none
HandleNoDetectionsWithoutEviction(s) ==
    [s EXCEPT !.disappeared_counts =
                  IncrementDisappeared(@, TrackIds(s.tracked_objects))]

\* ObjectTracker._handle_no_detections
HandleNoDetections(s) ==
    RemoveLostTracks(
        [s EXCEPT !.disappeared_counts =
                      IncrementDisappeared(@, TrackIds(s.tracked_objects))])

\* one record of an update() result: a detection with its track_id
Tracked(class_name, confidence, box, track_id) ==
    [class_name |-> class_name, confidence |-> confidence, box |-> box,
     track_id |-> track_id]

\* ObjectTracker._initialize_tracks: <<tracker after, results>>
RECURSIVE InitializeTracks(_, _, _)
InitializeTracks(s, dets, results) ==
    IF dets = <<>> THEN <<s, results>>
    ELSE LET detection == Head(dets)
             s1 == CreateNewTrack(s, detection)
             track_id == s.next_object_id
         IN  InitializeTracks(s1, Tail(dets),
                 Append(results, Tracked(detection.class_name, detection.confidence,
                                         detection.box, track_id)))

\* a slip: every active track is returned, whatever its counter
PrepareTrackingOutputAll(s) ==
    [i \in DOMAIN s.tracked_objects |->
        Tracked(s.tracked_objects[i].class_name, s.tracked_objects[i].confidence,
                s.tracked_objects[i].bbox, s.tracked_objects[i].track_id)]

\* ObjectTracker._prepare_tracking_output: the objects whose counter is 0
PrepareTrackingOutput(s) ==
    LET seen == SelectSeq(s.tracked_objects,
                    LAMBDA obj : Get(s.disappeared_counts, obj.track_id, 0) = 0)
    IN  [i \in DOMAIN seen |->
            Tracked(seen[i].class_name, seen[i].confidence, seen[i].bbox,
                    seen[i].track_id)]

-----------------------------------------------------------------------------
(* Matching                                                                *)

\* a slip: an accepted pair consumes its track only, not its detection
RECURSIVE GreedyPassReusingDetections(_, _, _)
GreedyPassReusingDetections(iou_matrix, cands, matched) ==
    LET used_tracks == {p[1] : p \in matched}
        free == {p \in cands : p[1] \notin used_tracks}
        best == {p \in free :
                    \A q \in free : ~IouGreater(iou_matrix[q], iou_matrix[p])}
    IN  IF free = {} THEN {matched}
        ELSE UNION {GreedyPassReusingDetections(iou_matrix, cands, matched \cup {p}) :
                        p \in best}

\* a slip: np.argsort(ious) for np.argsort(-ious), the lowest IoU first
RECURSIVE GreedyPassAscending(_, _, _)
GreedyPassAscending(iou_matrix, cands, matched) ==
    LET used_tracks == {p[1] : p \in matched}
        used_detections == {p[2] : p \in matched}
        free == {p \in cands : p[1] \notin used_tracks /\ p[2] \notin used_detections}
        worst == {p \in free :
                    \A q \in free : ~IouGreater(iou_matrix[p], iou_matrix[q])}
    IN  IF free = {} THEN {matched}
        ELSE UNION {GreedyPassAscending(iou_matrix, cands, matched \cup {p}) :
                        p \in worst}

\* One greedy pass of _match_detections over the candidate pairs cands, in
\* descending IoU order, starting from the pairs already matched.  np.argsort
\* fixes no order among equal IoUs, so the pass has one outcome per order of
\* the ties: the set of all of them.
RECURSIVE GreedyPass(_, _, _)
GreedyPass(iou_matrix, cands, matched) ==
    LET used_tracks == {p[1] : p \in matched}
        used_detections == {p[2] : p \in matched}
        free == {p \in cands : p[1] \notin used_tracks /\ p[2] \notin used_detections}
        best == {p \in free :
                    \A q \in free : ~IouGreater(iou_matrix[q], iou_matrix[p])}
        \* the pairs of best that share no track and no detection with another
        \* pair of best are taken in every order of the ties
        alone == {p \in best :
                    \A q \in best \ {p} : q[1] # p[1] /\ q[2] # p[2]}
    IN  IF free = {} THEN {matched}
        ELSE IF alone # {} THEN GreedyPass(iou_matrix, cands, matched \cup alone)
        ELSE UNION {GreedyPass(iou_matrix, cands, matched \cup {p}) : p \in best}

\* a slip: the second pass, for the IoUs between the threshold and 0.5, is left out
MatchDetectionsHighOnly(iou_matrix, num_tracks, num_detections, threshold) ==
    IF num_tracks = 0 \/ num_detections = 0 THEN {{}}
    ELSE LET pairs == (1..num_tracks) \X (1..num_detections)
             high_conf == {p \in pairs : IouAbove(iou_matrix[p], HighConfidenceIou)}
         IN  GreedyPass(iou_matrix, high_conf, {})

\* a slip: the second pass starts from empty used_tracks and used_detections
MatchDetectionsPassesApart(iou_matrix, num_tracks, num_detections, threshold) ==
    IF num_tracks = 0 \/ num_detections = 0 THEN {{}}
    ELSE LET pairs == (1..num_tracks) \X (1..num_detections)
             high_conf == {p \in pairs : IouAbove(iou_matrix[p], HighConfidenceIou)}
             remaining_valid ==
                 {p \in pairs : /\ IouAbove(iou_matrix[p], threshold)
                                /\ ~IouAbove(iou_matrix[p], HighConfidenceIou)}
         IN  {first_pass \cup second_pass :
                <<first_pass, second_pass>> \in
                    GreedyPass(iou_matrix, high_conf, {})
                        \X GreedyPass(iou_matrix, remaining_valid, {})}

\* ObjectTracker._match_detections: the possible values of matched_pairs (as
\* sets of <<track_idx, det_idx>>, indices from 1)
MatchDetections(iou_matrix, num_tracks, num_detections, threshold) ==
    IF num_tracks = 0 \/ num_detections = 0 THEN {{}}
    ELSE LET pairs == (1..num_tracks) \X (1..num_detections)
             high_conf == {p \in pairs : IouAbove(iou_matrix[p], HighConfidenceIou)}
             remaining_valid ==
                 {p \in pairs : /\ IouAbove(iou_matrix[p], threshold)
                                /\ ~IouAbove(iou_matrix[p], HighConfidenceIou)}
         IN  UNION {GreedyPass(iou_matrix, remaining_valid, first_pass) :
                        first_pass \in GreedyPass(iou_matrix, high_conf, {})}

\* unmatched_tracks, ascending
UnmatchedTracks(matched_pairs, num_tracks) ==
    SelectSeq([i \in 1..num_tracks |-> i],
              LAMBDA i : i \notin {p[1] : p \in matched_pairs})

\* a slip: the matched detections are not left out
UnmatchedDetectionsAll(matched_pairs, num_detections) ==
    [i \in 1..num_detections |-> i]

\* unmatched_detections, ascending
UnmatchedDetections(matched_pairs, num_detections) ==
    SelectSeq([i \in 1..num_detections |-> i],
              LAMBDA i : i \notin {p[2] : p \in matched_pairs})

-----------------------------------------------------------------------------
(* update()                                                                *)

\* a slip: self.disappeared_counts[track_id] = 0 is left out
UpdateMatchedKeepingCounters(s, dets, matched_pairs) ==
    LET tracked_objects_list == s.tracked_objects
        DetOf(i) == (CHOOSE p \in matched_pairs : p[1] = i)[2]
        matchedIdx == {p[1] : p \in matched_pairs}
    IN  [s EXCEPT
           !.tracked_objects =
               [i \in DOMAIN tracked_objects_list |->
                   IF i \in matchedIdx
                   THEN TrackedObjectUpdate(tracked_objects_list[i],
                                            dets[DetOf(i)].box,
                                            dets[DetOf(i)].confidence,
                                            s.frame_count)
                   ELSE tracked_objects_list[i]]]

\* a slip: a matched track that was not counted at its creation is counted
\* once the rate limit has room for it
UpdateMatchedCountingLate(s, dets, matched_pairs) ==
    LET tracked_objects_list == s.tracked_objects
        DetOf(i) == (CHOOSE p \in matched_pairs : p[1] = i)[2]
        matchedIdx == {p[1] : p \in matched_pairs}
        matchedIds == {tracked_objects_list[i].track_id : i \in matchedIdx}
        late == {i \in matchedIdx :
                    /\ tracked_objects_list[i].track_id \notin s.counted_objects
                    /\ RecentNewObjects(s, tracked_objects_list[i].class_name)
                            < RateLimitCount}
        lateIds == {tracked_objects_list[i].track_id : i \in late}
        lateOf(class_name) ==
            {i \in late : tracked_objects_list[i].class_name = class_name}
    IN  [s EXCEPT
           !.tracked_objects =
               [i \in DOMAIN tracked_objects_list |->
                   IF i \in matchedIdx
                   THEN TrackedObjectUpdate(tracked_objects_list[i],
                                            dets[DetOf(i)].box,
                                            dets[DetOf(i)].confidence,
                                            s.frame_count)
                   ELSE tracked_objects_list[i]],
           !.disappeared_counts =
               [k \in DOMAIN @ \cup matchedIds |->
                   IF k \in matchedIds THEN 0 ELSE @[k]],
           !.unique_object_frequencies =
               [c \in DOMAIN @ |-> @[c] + Cardinality(lateOf(c))],
           !.counted_objects = @ \cup lateIds,
           !.object_lifespans =
               [k \in DOMAIN @ |->
                   IF k \in lateIds THEN [@[k] EXCEPT !.counted = TRUE] ELSE @[k]]]

\* lines 107-116: update the matched tracks, reset their counters
UpdateMatched(s, dets, matched_pairs) ==
    LET tracked_objects_list == s.tracked_objects
        DetOf(i) == (CHOOSE p \in matched_pairs : p[1] = i)[2]
        matchedIdx == {p[1] : p \in matched_pairs}
        matchedIds == {tracked_objects_list[i].track_id : i \in matchedIdx}
    IN  [s EXCEPT
           !.tracked_objects =
               [i \in DOMAIN tracked_objects_list |->
                   IF i \in matchedIdx
                   THEN TrackedObjectUpdate(tracked_objects_list[i],
                                            dets[DetOf(i)].box,
                                            dets[DetOf(i)].confidence,
                                            s.frame_count)
                   ELSE tracked_objects_list[i]],
           !.disappeared_counts =
               [k \in DOMAIN @ \cup matchedIds |->
                   IF k \in matchedIds THEN 0 ELSE @[k]]]

\* a slip: only the first unmatched track is aged
AgeUnmatchedFirstOnly(s, tracked_objects_list, unmatched_tracks) ==
    [s EXCEPT !.disappeared_counts =
        IncrementDisappeared(@,
            [i \in DOMAIN unmatched_tracks \cap {1} |->
                tracked_objects_list[unmatched_tracks[i]].track_id])]

\* lines 118-121: age the unmatched tracks
AgeUnmatched(s, tracked_objects_list, unmatched_tracks) ==
    [s EXCEPT !.disappeared_counts =
        IncrementDisappeared(@,
            [i \in DOMAIN unmatched_tracks |->
                tracked_objects_list[unmatched_tracks[i]].track_id])]

\* lines 123-125: a new track for every unmatched detection, in input order
RECURSIVE CreateForUnmatched(_, _, _)
CreateForUnmatched(s, dets, unmatched_detections) ==
    IF unmatched_detections = <<>> THEN s
    ELSE CreateForUnmatched(CreateNewTrack(s, dets[Head(unmatched_detections)]),
                            dets, Tail(unmatched_detections))

\* a slip: _remove_lost_tracks before the tracks of the unmatched detections
\* are created
UpdateTracksEvictingFirst(s, dets, matched_pairs) ==
    LET tracked_objects_list == s.tracked_objects
        s1 == UpdateMatched(s, dets, matched_pairs)
        s2 == AgeUnmatched(s1, tracked_objects_list,
                           UnmatchedTracks(matched_pairs, Len(tracked_objects_list)))
        s3 == RemoveLostTracks(s2)
        s4 == CreateForUnmatched(s3, dets,
                                 UnmatchedDetections(matched_pairs, Len(dets)))
    IN  <<s4, PrepareTrackingOutput(s4)>>

\* lines 98-131 for one value of matched_pairs: <<tracker after, results>>
UpdateTracks(s, dets, matched_pairs) ==
    LET tracked_objects_list == s.tracked_objects
        s1 == UpdateMatched(s, dets, matched_pairs)
        s2 == AgeUnmatched(s1, tracked_objects_list,
                           UnmatchedTracks(matched_pairs, Len(tracked_objects_list)))
        s3 == CreateForUnmatched(s2, dets,
                                 UnmatchedDetections(matched_pairs, Len(dets)))
        s4 == RemoveLostTracks(s3)
    IN  <<s4, PrepareTrackingOutput(s4)>>

\* the possible values of matched_pairs in update(dets) on tracker s
Matchings(s, dets) ==
    MatchDetections(
        CalculateIouMatrix([i \in DOMAIN s.tracked_objects |-> s.tracked_objects[i].bbox],
                           [j \in DOMAIN dets |-> dets[j].box]),
        Len(s.tracked_objects), Len(dets), s.iou_threshold)

\* ObjectTracker.update: the possible <<tracker after, results>>
UpdateOutcomes(s, dets) ==
    LET s1 == [s EXCEPT !.frame_count = @ + 1]
    IN  IF dets = <<>> THEN {<<HandleNoDetections(s1), <<>>>>}
        ELSE IF s1.tracked_objects = <<>> THEN {InitializeTracks(s1, dets, <<>>)}
        ELSE {UpdateTracks(s1, dets, m) : m \in Matchings(s1, dets)}

\* update(dets) with the outcome <<tracker after, results>>
UpdateTo(dets, outcome) ==
    /\ Becomes(outcome[1])
    /\ detections' = dets
    /\ result' = outcome[2]

\* update(dets)
Update(dets) ==
    \E outcome \in UpdateOutcomes(Self, dets) :
        /\ UpdateTo(dets, outcome)
        /\ UNCHANGED harness

\* a slip: reset() forgets to clear unique_object_frequencies
ResetKeepingFrequencies ==
    /\ Becomes([ResetTracker(Self) EXCEPT
                    !.unique_object_frequencies = unique_object_frequencies])
    /\ detections' = <<>>
    /\ result' = <<>>
    /\ UNCHANGED harness

\* ObjectTracker.reset
Reset ==
    /\ Becomes(ResetTracker(Self))
    /\ detections' = <<>>
    /\ result' = <<>>
    /\ UNCHANGED harness

\* ObjectTracker.get_frequency_statistics
GetFrequencyStatistics == unique_object_frequencies

\* the count get_frequency_statistics() reports for a class (0: no entry)
UniqueCount(class_name) == Get(GetFrequencyStatistics, class_name, 0)

-----------------------------------------------------------------------------
(* The caller: one update() per frame                                      *)

Classes == {"car", "person"}

\* a 100 x 100 box whose left edge is x
BoxAt(x) == <<x, 100, x + 100, 200>>

Detection(class_name, confidence, box) ==
    [class_name |-> class_name, confidence |-> confidence, box |-> box]

MaxFrames == 3

\* 100-120 overlap above 0.5, 120-170 between 0.2 and 0.5, 100-170 below 0.2
\* but closer than 100, 400 is far from all
Positions == {100, 120, 170, 400}

Detections == {Detection(c, 80, BoxAt(x)) : c \in Classes, x \in Positions}

\* frames of at most two detections; two are of one class, left to right
Frames ==
    {<<>>} \cup {<<d>> : d \in Detections}
           \cup {p \in Detections \X Detections :
                    /\ p[1].class_name = p[2].class_name
                    /\ p[1].box[1] < p[2].box[1]}

\* values of max_disappeared small enough for evictions within MaxFrames
SmallMaxDisappeared == {0, 1}

\* the state after tracker s is constructed
Start(s) ==
    /\ max_disappeared = s.max_disappeared
    /\ iou_threshold = s.iou_threshold
    /\ spatial_threshold = s.spatial_threshold
    /\ next_object_id = s.next_object_id
    /\ tracked_objects = s.tracked_objects
    /\ disappeared_counts = s.disappeared_counts
    /\ frame_count = s.frame_count
    /\ unique_object_frequencies = s.unique_object_frequencies
    /\ seen_objects = s.seen_objects
    /\ class_track_history = s.class_track_history
    /\ unique_object_positions = s.unique_object_positions
    /\ object_lifespans = s.object_lifespans
    /\ counted_objects = s.counted_objects
    /\ issued = s.issued
    /\ detections = <<>>
    /\ result = <<>>
    /\ calls = <<>>
    /\ argsort_order = EmptyDict
    /\ other = Instance(NewTracker(DefaultMaxDisappeared, DefaultIouThreshold))

\* ObjectTracker(max_disappeared = m) for a small m
Init == \E m \in SmallMaxDisappeared : Start(NewTracker(m, DefaultIouThreshold))

Frame == \E dets \in Frames : frame_count < MaxFrames /\ Update(dets)

Next == Frame \/ Reset

Spec == Init /\ [][Next]_vars

\* ObjectTracker() with the default arguments
InitDefault == Start(NewTracker(DefaultMaxDisappeared, DefaultIouThreshold))

-----------------------------------------------------------------------------
(* Scenario: one object in every frame (test_confidence_level_changes)     *)

MaxFramesStable == 5

\* the 100 x 100 box of the test moved k units along the diagonal
BoxShifted(k) == <<100 + k, 100 + k, 200 + k, 200 + k>>

\* two such boxes overlap above 0.5 iff their shifts differ by at most 15
StableShifts == {0, 5, 10, 15, 20, 30, 45}

StableDetections ==
    {Detection(c, conf, BoxShifted(k)) :
        c \in Classes, conf \in {50, 95}, k \in StableShifts}

\* the frame <<d>> continues a stable object: the class of the previous frame,
\* a box overlapping the previous frame's box with IoU > 0.5
StableInput(d) ==
    \/ frame_count = 0
    \/ /\ Len(detections) = 1
       /\ d.class_name = detections[1].class_name
       /\ IouAbove(Iou(detections[1].box, d.box), 50)

StableFrame ==
    \E d \in StableDetections :
        /\ frame_count < MaxFramesStable
        /\ StableInput(d)
        /\ Update(<<d>>)

SpecStable == InitDefault /\ [][StableFrame]_vars

-----------------------------------------------------------------------------
(* Scenario: two objects in every frame (test_multiple_moving_cars)        *)

MaxFramesTwo == 3

\* the distance of two centers is more than threshold, on doubled centers
FartherThan(c, d, threshold) ==
    (c[1] - d[1]) * (c[1] - d[1]) + (c[2] - d[2]) * (c[2] - d[2])
        > 4 * threshold * threshold

\* 100-165 and 210-270 overlap barely above 0.2, 165-210 overlap more
TwoPositions == {100, 120, 165, 210, 230, 270}

TwoDetections ==
    {Detection(c, conf, BoxAt(x)) : c \in Classes, conf \in {80, 90}, x \in TwoPositions}

\* the frame <<d, e>> shows two objects of one class more than 100 apart; after
\* the first frame each is of the class of the previous frame and overlaps its
\* own previous box above the IoU threshold
TwoInput(d, e) ==
    /\ d.class_name = e.class_name
    /\ FartherThan(Center(d.box), Center(e.box), 100)
    /\ \/ frame_count = 0
       \/ /\ Len(detections) = 2
          /\ d.class_name = detections[1].class_name
          /\ IouAbove(Iou(detections[1].box, d.box), iou_threshold)
          /\ IouAbove(Iou(detections[2].box, e.box), iou_threshold)

TwoFrame ==
    \E d \in TwoDetections, e \in TwoDetections :
        /\ frame_count < MaxFramesTwo
        /\ TwoInput(d, e)
        /\ Update(<<d, e>>)

SpecTwo == InitDefault /\ [][TwoFrame]_vars

-----------------------------------------------------------------------------
(* The read operations and the threshold setter, on a tracker record       *)

\* round((count / total_unique_objects) * 100, 2) if total_unique_objects > 0
\* else 0, in hundredths of a percent (no count of the model is half way
\* between two hundredths)
Percentage(count, total_unique_objects) ==
    IF total_unique_objects > 0
    THEN (count * 20000 + total_unique_objects) \div (2 * total_unique_objects)
    ELSE 0

\* ObjectTracker.get_frequency_statistics: <<tracker after, value returned>>
GetFrequencyStatisticsOf(s) == <<s, s.unique_object_frequencies>>

\* ObjectTracker.get_tracking_summary: <<tracker after, value returned>>
GetTrackingSummary(s) ==
    LET total_unique_objects ==
            SumOver(s.unique_object_frequencies, DOMAIN s.unique_object_frequencies)
    IN  <<s,
          [total_unique_objects |-> total_unique_objects,
           active_tracks |-> Len(s.tracked_objects),
           frames_processed |-> s.frame_count,
           unique_object_frequencies |-> s.unique_object_frequencies,
           class_distribution |->
               [class_name \in DOMAIN s.unique_object_frequencies |->
                   [count |-> s.unique_object_frequencies[class_name],
                    percentage |-> Percentage(s.unique_object_frequencies[class_name],
                                              total_unique_objects)]]]>>

\* the value get_debug_info returns
DebugInfo(s) ==
    [active_tracks |-> Len(s.tracked_objects),
     total_unique_objects |->
         SumOver(s.unique_object_frequencies, DOMAIN s.unique_object_frequencies),
     frames_processed |-> s.frame_count,
     class_frequencies |-> s.unique_object_frequencies,
     class_track_counts |->
         [k \in DOMAIN s.class_track_history |-> Cardinality(s.class_track_history[k])],
     active_track_ids |-> TrackIds(s.tracked_objects),
     disappeared_counts |-> s.disappeared_counts,
     unique_positions_count |->
         [k \in DOMAIN s.unique_object_positions |-> Len(s.unique_object_positions[k])],
     spatial_threshold |-> s.spatial_threshold]

\* a slip: the positions are looked up class by class, and a lookup in a
\* defaultdict inserts the key it does not find
GetDebugInfoTouchingPositions(s) ==
    <<[s EXCEPT !.unique_object_positions =
            [k \in DOMAIN @ \cup DOMAIN s.class_track_history |-> Get(@, k, <<>>)]],
      DebugInfo(s)>>

\* ObjectTracker.get_debug_info: <<tracker after, value returned>>
GetDebugInfo(s) == <<s, DebugInfo(s)>>

\* ObjectTracker.set_spatial_threshold: the tracker after it
SetSpatialThreshold(s, threshold) == [s EXCEPT !.spatial_threshold = threshold]

-----------------------------------------------------------------------------
(* A caller that logs its calls                                            *)

\* what a call without a return statement returns
None == "None"

ReadOperations ==
    {"get_frequency_statistics", "get_tracking_summary", "get_debug_info"}

\* operation op(args) on tracker s: the possible <<tracker after, value returned>>
Apply(s, op, args) ==
    CASE op = "update" -> UpdateOutcomes(s, args)
      [] op = "reset" -> {<<ResetTracker(s), None>>}
      [] op = "set_spatial_threshold" -> {<<SetSpatialThreshold(s, args), None>>}
      [] op = "get_frequency_statistics" -> {GetFrequencyStatisticsOf(s)}
      [] op = "get_tracking_summary" -> {GetTrackingSummary(s)}
      [] op = "get_debug_info" -> {GetDebugInfo(s)}

\* the entry of a call in a history; statistics is what
\* get_frequency_statistics() would return right after the call
Call(op, args, outcome) ==
    [op |-> op, args |-> args, returned |-> outcome[2],
     statistics |-> outcome[1].unique_object_frequencies]

\* the call op(args) is made on the tracker of the variables and logged
Calling(op, args) ==
    \E outcome \in Apply(Self, op, args) :
        /\ Becomes(outcome[1])
        /\ detections' = (IF op = "update" THEN args
                          ELSE IF op = "reset" THEN <<>> ELSE detections)
        /\ result' = (IF op = "update" THEN outcome[2]
                      ELSE IF op = "reset" THEN <<>> ELSE result)
        /\ calls' = Append(calls, Call(op, args, outcome))

-----------------------------------------------------------------------------
(* Scenario: a session of updates, reads, resets and threshold changes     *)

MaxCalls == 4

SessionFrames ==
    {<<>>,
     <<Detection("car", 80, BoxAt(100))>>,
     <<Detection("person", 80, BoxAt(170))>>,
     <<Detection("car", 80, BoxAt(100)), Detection("car", 80, BoxAt(400))>>}

SessionThresholds == {50, 150}

SessionUpdate ==
    \E dets \in SessionFrames :
        Len(calls) < MaxCalls /\ Calling("update", dets) /\ UNCHANGED <<argsort_order, other>>

SessionReset ==
    Len(calls) < MaxCalls /\ Calling("reset", <<>>) /\ UNCHANGED <<argsort_order, other>>

SessionRead ==
    \E op \in ReadOperations :
        Len(calls) < MaxCalls /\ Calling(op, <<>>) /\ UNCHANGED <<argsort_order, other>>

SessionSetSpatialThreshold ==
    \E threshold \in SessionThresholds :
        /\ Len(calls) < MaxCalls
        /\ Calling("set_spatial_threshold", threshold)
        /\ UNCHANGED <<argsort_order, other>>

SessionNext ==
    SessionUpdate \/ SessionReset \/ SessionRead \/ SessionSetSpatialThreshold

SpecSession == Init /\ [][SessionNext]_vars

-----------------------------------------------------------------------------
(* Scenario: an object is seen, lost for a while, and seen again           *)

MaxFramesDropout == 36

PresentDetections == {Detection(c, 80, BoxAt(x)) : c \in Classes, x \in {100, 120}}

\* against the box at 100: the same box, IoU above 0.5, IoU between 0.2 and
\* 0.5, IoU below 0.2 at distance 90, disjoint at distance exactly 100, far
ReappearPositions == {100, 120, 160, 190, 200, 400}

ReappearDetections ==
    {Detection(c, 90, BoxAt(x)) : c \in Classes, x \in ReappearPositions}

\* the frames of a drop-out: three frames of one detection, then
\* empty frames, then one frame of one detection, which ends the run
DropoutInput(dets) ==
    IF frame_count < 3
    THEN \E d \in PresentDetections : dets = <<d>>
    ELSE /\ frame_count = 3 \/ detections = <<>>
         /\ \/ dets = <<>>
            \/ \E d \in ReappearDetections : dets = <<d>>

DropoutFrame ==
    \E dets \in {<<>>} \cup {<<d>> : d \in PresentDetections \cup ReappearDetections} :
        /\ frame_count < MaxFramesDropout
        /\ DropoutInput(dets)
        /\ Update(dets)

SpecDropout == InitDefault /\ [][DropoutFrame]_vars

-----------------------------------------------------------------------------
(* Scenario: many objects appear in the first frame                        *)

MaxFramesBurst == 2

\* 100, 300, 500, 700 and 850 are pairwise more than 100 apart; 800 touches
\* 700 at exactly 100 and overlaps 850
BurstPositions == {100, 300, 500, 700, 800, 850}

MaxBurst == 5

RECURSIVE Ascending(_)
Ascending(xs) ==
    IF xs = {} THEN <<>>
    ELSE LET x == CHOOSE y \in xs : \A z \in xs : y <= z
         IN  <<x>> \o Ascending(xs \ {x})

Reversed(seq) == [i \in DOMAIN seq |-> seq[Len(seq) + 1 - i]]

\* the first frames: objects left to right or right to left, of any classes
BurstFrames ==
    LET placed == UNION {[xs -> Classes] :
                            xs \in {ys \in SUBSET BurstPositions :
                                      ys # {} /\ Cardinality(ys) <= MaxBurst}}
        LeftToRight(f) == LET xs == Ascending(DOMAIN f)
                          IN  [i \in DOMAIN xs |-> Detection(f[xs[i]], 80, BoxAt(xs[i]))]
    IN  {LeftToRight(f) : f \in placed} \cup {Reversed(LeftToRight(f)) : f \in placed}

\* after the first frame the objects stay where they are, or are all gone
BurstInput(dets) ==
    IF frame_count = 0 THEN dets \in BurstFrames
    ELSE dets = detections \/ dets = <<>>

BurstFrame ==
    \E dets \in BurstFrames \cup {<<>>} :
        /\ frame_count < MaxFramesBurst
        /\ BurstInput(dets)
        /\ Update(dets)

SpecBurst == InitDefault /\ [][BurstFrame]_vars

-----------------------------------------------------------------------------
(* Scenario: a track misses some frames while another may go on            *)

MaxFramesGap == 4

\* adjacent positions overlap with IoU 0.25, the outer two are disjoint
GapPositions == {100, 160, 220}

Bystander == Detection("car", 80, BoxAt(400))

GapFrames ==
    LET moving == {Detection("car", 80, BoxAt(x)) : x \in GapPositions}
    IN  {<<>>, <<Bystander>>,
         <<Detection("car", 80, BoxAt(100)), Detection("car", 80, BoxAt(220))>>}
        \cup {<<d>> : d \in moving} \cup {<<d, Bystander>> : d \in moving}

GapFrame == \E dets \in GapFrames : frame_count < MaxFramesGap /\ Update(dets)

SpecGap == InitDefault /\ [][GapFrame]_vars

-----------------------------------------------------------------------------
(* Scenario: a run, reset(), and the same run again                        *)

MaxFramesRoundTrip == 3

\* the track boxes at 100 and 220 both overlap the box at 160 with IoU 0.25
RoundTripFrames ==
    {<<>>,
     <<Detection("car", 80, BoxAt(100))>>,
     <<Detection("person", 80, BoxAt(100))>>,
     <<Detection("car", 80, BoxAt(160))>>,
     <<Detection("car", 80, BoxAt(160)), Bystander>>,
     <<Detection("car", 80, BoxAt(100)), Detection("car", 80, BoxAt(220))>>}

HasReset(cs) == \E i \in DOMAIN cs : cs[i].op = "reset"

\* the number of calls before the first reset()
FirstRun(cs) ==
    IF HasReset(cs)
    THEN (CHOOSE i \in DOMAIN cs : cs[i].op = "reset" /\ ~HasReset(SubSeq(cs, 1, i - 1))) - 1
    ELSE Len(cs)

\* update(dets), logged, by a caller for whom np.argsort is a function: it
\* orders equal IoUs in some way, and in the same way whenever it is given
\* the same values, so the same IoU matrix is matched in the same way
DeterministicUpdate(dets) ==
    LET s1 == [Self EXCEPT !.frame_count = @ + 1]
        iou_matrix ==
            CalculateIouMatrix([i \in DOMAIN tracked_objects |-> tracked_objects[i].bbox],
                               [j \in DOMAIN dets |-> dets[j].box])
    IN  IF dets = <<>> \/ tracked_objects = <<>>
        THEN Calling("update", dets) /\ UNCHANGED argsort_order
        ELSE \E matched_pairs \in Matchings(s1, dets) :
                /\ iou_matrix \in DOMAIN argsort_order
                      => matched_pairs = argsort_order[iou_matrix]
                /\ UpdateTo(dets, UpdateTracks(s1, dets, matched_pairs))
                /\ calls' = Append(calls, Call("update", dets,
                                               UpdateTracks(s1, dets, matched_pairs)))
                /\ argsort_order' = Put(argsort_order, iou_matrix, matched_pairs)

RoundTripFrame ==
    \E dets \in RoundTripFrames :
        /\ ~HasReset(calls)
        /\ Len(calls) < MaxFramesRoundTrip
        /\ DeterministicUpdate(dets)
        /\ UNCHANGED other

RoundTripReset ==
    /\ ~HasReset(calls)
    /\ calls # <<>>
    /\ Calling("reset", <<>>)
    /\ UNCHANGED <<argsort_order, other>>

\* the frames of the first run, fed again in the same order
RoundTripReplay ==
    /\ HasReset(calls)
    /\ Len(calls) - (FirstRun(calls) + 1) < FirstRun(calls)
    /\ DeterministicUpdate(calls[Len(calls) - FirstRun(calls)].args)
    /\ UNCHANGED other

RoundTripNext == RoundTripFrame \/ RoundTripReset \/ RoundTripReplay

SpecRoundTrip == Init /\ [][RoundTripNext]_vars

-----------------------------------------------------------------------------
(* Scenario: two trackers, each with a caller of its own                   *)

MaxCallsTwo == 4

InstancesFrames ==
    {<<Detection("car", 80, BoxAt(100))>>,
     <<Detection("car", 80, BoxAt(100)), Detection("person", 80, BoxAt(400))>>}

InstancesOperations == {"update", "reset", "get_tracking_summary"}

InstancesArguments(op) == IF op = "update" THEN InstancesFrames ELSE {<<>>}

\* the first tracker and its history are the variables, the second is other
First == [tracker |-> Self, calls |-> calls]

\* a class-level id counter, which ObjectTracker does not have
AttributesWithClassCounter(instance, sibling) ==
    [instance.tracker EXCEPT
        !.next_object_id = IF sibling.tracker.next_object_id > @
                           THEN sibling.tracker.next_object_id ELSE @]

\* what self.<attribute> is in a method called on instance while sibling
\* exists: every attribute is assigned in __init__, on self, to a new object
Attributes(instance, sibling) == instance.tracker

CallOnFirst ==
    \E op \in InstancesOperations : \E args \in InstancesArguments(op) :
        /\ Len(calls) + Len(other.calls) < MaxCallsTwo
        /\ \E outcome \in Apply(Attributes(First, other), op, args) :
              /\ Becomes(outcome[1])
              /\ detections' = (IF op = "update" THEN args
                                ELSE IF op = "reset" THEN <<>> ELSE detections)
              /\ result' = (IF op = "update" THEN outcome[2]
                            ELSE IF op = "reset" THEN <<>> ELSE result)
              /\ calls' = Append(calls, Call(op, args, outcome))
        /\ UNCHANGED <<argsort_order, other>>

CallOnSecond ==
    \E op \in InstancesOperations : \E args \in InstancesArguments(op) :
        /\ Len(calls) + Len(other.calls) < MaxCallsTwo
        /\ \E outcome \in Apply(Attributes(other, First), op, args) :
              other' = [tracker |-> outcome[1],
                        calls |-> Append(other.calls, Call(op, args, outcome))]
        /\ Becomes(Self)
        /\ UNCHANGED <<detections, result, calls, argsort_order>>

InstancesNext == CallOnFirst \/ CallOnSecond

SpecInstances == Init /\ [][InstancesNext]_vars

-----------------------------------------------------------------------------
(* Scenario: frames with detections a validating caller would reject       *)

MaxFramesMalformed == 3

\* x1 < x2, y1 < y2 and a confidence in [0, 1]; update() makes no such test
WellFormed(detection) ==
    /\ detection.box[1] < detection.box[3]
    /\ detection.box[2] < detection.box[4]
    /\ detection.confidence >= 0
    /\ detection.confidence <= 100

\* x1 > x2, x1 = x2, and a confidence of 1.5
MalformedDetections ==
    {Detection("car", 80, <<200, 100, 100, 200>>),
     Detection("car", 80, <<100, 100, 100, 200>>),
     Detection("person", 150, BoxAt(100))}

MalformedFrames ==
    LET good == {Detection("car", 80, BoxAt(100)), Detection("car", 90, BoxAt(120))}
    IN  {<<d>> : d \in good \cup MalformedDetections}
            \cup {<<d, e>> : d \in good, e \in MalformedDetections}
            \cup {<<e, d>> : d \in good, e \in MalformedDetections}

MalformedFrame ==
    \E dets \in MalformedFrames : frame_count < MaxFramesMalformed /\ Update(dets)

SpecMalformed == Init /\ [][MalformedFrame]_vars

-----------------------------------------------------------------------------
(* Scenario: an object is seen, evicted, and something appears later       *)

MaxFramesLookback == 12

LookbackFirst == {Detection(c, 80, BoxAt(100)) : c \in Classes}

\* against the box at 100: the same box, too little overlap at distance 70,
\* disjoint at distance exactly 100, far
LookbackAgain ==
    {Detection(c, 90, BoxAt(x)) : c \in Classes, x \in {100, 170, 200, 400}}

\* empty frames, then an object for some frames, then empty frames, then one
\* frame of one detection, which ends the run
LookbackInput(dets) ==
    IF next_object_id = 1
    THEN dets = <<>> \/ \E d \in LookbackFirst : dets = <<d>>
    ELSE IF detections # <<>> /\ detections[1] \in LookbackFirst
    THEN dets = detections \/ dets = <<>> \/ \E d \in LookbackAgain : dets = <<d>>
    ELSE /\ detections = <<>>
         /\ dets = <<>> \/ \E d \in LookbackAgain : dets = <<d>>

LookbackFrame ==
    \E dets \in {<<>>} \cup {<<d>> : d \in LookbackFirst \cup LookbackAgain} :
        /\ frame_count < MaxFramesLookback
        /\ LookbackInput(dets)
        /\ Update(dets)

SpecLookback == Init /\ [][LookbackFrame]_vars

-----------------------------------------------------------------------------
(* Scenario: objects far apart appear one after another and stay           *)

MaxFramesWindow == 7

\* pairwise 200 apart: no two boxes overlap, no two centers are near
WindowPositions == <<100, 300, 500, 700, 900>>

\* the i-th object to appear stands at the i-th position
WindowFrames ==
    UNION {{[i \in 1..k |-> Detection(f[i], 80, BoxAt(WindowPositions[i]))] :
                f \in [1..k -> Classes]} : k \in 1..Len(WindowPositions)}

\* every object of the previous frame is still there; up to three objects
\* appear in the first frame, at most one in a later frame
WindowInput(dets) ==
    /\ Len(dets) >= Len(detections)
    /\ SubSeq(dets, 1, Len(detections)) = detections
    /\ Len(dets) - Len(detections) <= (IF frame_count = 0 THEN 3 ELSE 1)

WindowFrame ==
    \E dets \in WindowFrames :
        /\ frame_count < MaxFramesWindow
        /\ WindowInput(dets)
        /\ Update(dets)

SpecWindow == InitDefault /\ [][WindowFrame]_vars

-----------------------------------------------------------------------------
(* Scenario: frames in which each of the three checks can decide           *)

MaxFramesCounting == 3

\* 100 and 170 are near each other and overlap below the IoU threshold; 100,
\* 300, 500 and 700 are far from each other
CountingFrames ==
    LET Cars(xs) == [i \in DOMAIN xs |-> Detection("car", 80, BoxAt(xs[i]))]
    IN  {<<>>,
         Cars(<<100>>), Cars(<<170>>), Cars(<<700>>),
         Cars(<<100, 300, 500>>), Cars(<<100, 300, 500, 700>>),
         <<Detection("person", 80, BoxAt(100))>>,
         <<Detection("person", 80, BoxAt(170))>>,
         <<Detection("car", 80, BoxAt(100)), Detection("person", 80, BoxAt(170))>>}

CountingFrame ==
    \E dets \in CountingFrames : frame_count < MaxFramesCounting /\ Update(dets)

SpecCounting == Init /\ [][CountingFrame]_vars

-----------------------------------------------------------------------------
(* Scenario: matching under IoU thresholds below, at and above the 0.5 of *)
(* the first pass, with overlaps on both sides of the thresholds and on them *)

MaxFramesMatch == 2

\* iou_threshold in percent: the default, the 0.5 of the first pass, and 0.7
IouThresholds == {DefaultIouThreshold, HighConfidenceIou, 70}

\* boxes 300 wide: two of them x apart overlap with IoU (300 - x) / (300 + x),
\* which is 0.5 at x = 100 and 0.2 at x = 200
WideBoxAt(x) == <<x, 100, x + 300, 200>>

MatchPositions == {0, 60, 100, 200, 300, 1000}

\* frames of one or two cars, left to right
MatchFrames ==
    {<<>>}
    \cup {<<Detection("car", 90, WideBoxAt(x))>> : x \in MatchPositions}
    \cup {<<Detection("car", 90, WideBoxAt(p[1])), Detection("car", 90, WideBoxAt(p[2]))>> :
            p \in {q \in MatchPositions \X MatchPositions : q[1] < q[2]}}

InitMatch ==
    \E t \in IouThresholds : Start(NewTracker(DefaultMaxDisappeared, t))

MatchFrame ==
    \E dets \in MatchFrames : frame_count < MaxFramesMatch /\ Update(dets)

SpecMatch == InitMatch /\ [][MatchFrame]_vars

-----------------------------------------------------------------------------
(* Scenario: an object lost long enough to be evicted, under the default   *)
(* max_disappeared and under values next to the lookback of the recovery   *)
(* check, and a detection after that                                       *)

MaxFramesRecovery == 34

\* max_disappeared: the default, and the two values between which an evicted
\* track can still be inside the lookback
RecoveryMaxDisappeared == {8, 9, DefaultMaxDisappeared}

InitRecovery ==
    \E m \in RecoveryMaxDisappeared : Start(NewTracker(m, DefaultIouThreshold))

\* an object from the first frame on; each later frame repeats the last
\* detection, is empty, or has one other detection; a detection that gets a
\* second track ends the run
RecoveryInput(dets) ==
    IF frame_count = 0
    THEN \E d \in LookbackFirst : dets = <<d>>
    ELSE IF detections # <<>> /\ next_object_id = 2
    THEN dets = detections \/ dets = <<>> \/ \E d \in LookbackAgain : dets = <<d>>
    ELSE /\ detections = <<>>
         /\ dets = <<>> \/ \E d \in LookbackAgain : dets = <<d>>

RecoveryFrame ==
    \E dets \in {<<>>} \cup {<<d>> : d \in LookbackFirst \cup LookbackAgain} :
        /\ frame_count < MaxFramesRecovery
        /\ RecoveryInput(dets)
        /\ Update(dets)

SpecRecovery == InitRecovery /\ [][RecoveryFrame]_vars

-----------------------------------------------------------------------------
(* Scenario: tracks that go stale in the call that creates a track nearby  *)

MaxFramesOrder == 4

\* a car moving from 100 over 150 to 200 (matched each time, IoU 0.33), two
\* cars near each other at 100 and 170, a car at 250 (near 170 and 200, far
\* from 100, overlapping neither 100 nor 170 above the threshold)
OrderFrames ==
    LET Cars(xs) == [i \in DOMAIN xs |-> Detection("car", 80, BoxAt(xs[i]))]
    IN  {<<>>, Cars(<<100>>), Cars(<<150>>), Cars(<<200>>), Cars(<<250>>),
         Cars(<<100, 170>>)}

OrderFrame ==
    \E dets \in OrderFrames : frame_count < MaxFramesOrder /\ Update(dets)

SpecOrder == Init /\ [][OrderFrame]_vars

-----------------------------------------------------------------------------
(* Claims                                                                  *)

\* the lifespan records of a class whose counted flag is true
CountedRecords(class_name) ==
    {track_id \in DOMAIN object_lifespans :
        /\ object_lifespans[track_id].class_name = class_name
        /\ object_lifespans[track_id].counted}

\* C1: the track_ids issued by update() calls on one tracker are strictly
\* increasing in the order of issue: an id issued later is greater than every
\* id issued before it, whether that track is still active or was evicted.
C1_IdsStrictlyIncrease ==
    \A i, j \in DOMAIN issued : i < j => issued[i] < issued[j]

\* C1 witness: an id was issued in a frame after the frame that evicted an
\* earlier track.
C1_IssuedAfterEviction ==
    \E i, j \in DOMAIN issued :
        /\ i < j
        /\ issued[i] \notin ActiveIds(tracked_objects)
        /\ issued[i] \in DOMAIN object_lifespans
        /\ issued[j] \in DOMAIN object_lifespans
        /\ object_lifespans[issued[j]].birth_frame
             > object_lifespans[issued[i]].birth_frame + max_disappeared + 1

\* C2: after any sequence of update() and reset() calls, the unique count
\* get_frequency_statistics() reports for a class is the number of lifespan
\* records of that class with counted = true, no class without such a record
\* has an entry, and the counts sum to the size of the counted-id set.
C2_CountsMatchLifespans ==
    /\ \A c \in Classes : UniqueCount(c) = Cardinality(CountedRecords(c))
    /\ \A c \in DOMAIN GetFrequencyStatistics : c \in Classes /\ CountedRecords(c) # {}
    /\ SumOver(GetFrequencyStatistics, DOMAIN GetFrequencyStatistics)
         = Cardinality(counted_objects)

\* C2 witness: both classes have counted objects, and some track was created
\* without being counted.
C2_CountedAndUncounted ==
    /\ \A c \in Classes : UniqueCount(c) >= 1
    /\ \E track_id \in DOMAIN object_lifespans : ~object_lifespans[track_id].counted

\* C3: on a fresh tracker fed one detection per frame, always of the same
\* class and with a box overlapping the previous frame's box with IoU > 0.5
\* (any confidence), after every frame exactly one track_id has been issued,
\* the output is the frame's detection carrying that id, and the frequency
\* statistics are exactly {class: 1}.
C3_StableSingleObject ==
    frame_count >= 1 =>
        /\ Len(issued) = 1
        /\ result = <<Tracked(detections[1].class_name, detections[1].confidence,
                              detections[1].box, issued[1])>>
        /\ GetFrequencyStatistics = (detections[1].class_name :> 1)

\* C3 witness: five frames were fed, and the box has drifted so far that it
\* overlaps the first frame's box by less than the IoU threshold.
C3_FiveFramesDrifted ==
    /\ frame_count = 5
    /\ Len(tracked_objects) = 1
    /\ tracked_objects[1].first_seen_frame = 1
    /\ tracked_objects[1].frames_tracked = 5
    /\ object_lifespans[tracked_objects[1].track_id].initial_position = Center(BoxShifted(0))
    /\ tracked_objects[1].bbox = BoxShifted(45)
    /\ tracked_objects[1].confidence = 95

\* two ids were issued, and the statistics are exactly {class: 2}
TwoIdsTwoCounted ==
    /\ Len(issued) = 2
    /\ issued[1] # issued[2]
    /\ Len(detections) = 2
    /\ GetFrequencyStatistics = (detections[1].class_name :> 2)

\* C4 as claimed: on a fresh tracker fed two detections of one class per
\* frame, their centers always more than 100 apart and each box overlapping
\* its own previous box above the IoU threshold, after every frame exactly two
\* distinct track_ids have been issued and the unique count of the class is 2.
C4_TwoObjectsAsClaimed == frame_count >= 1 => TwoIdsTwoCounted

\* the two tracks are the two detections of the last frame, in order
TwoTracked ==
    /\ frame_count >= 1
    /\ TwoIdsTwoCounted
    /\ Len(tracked_objects) = 2
    /\ \A i \in 1..2 :
        /\ tracked_objects[i].track_id = issued[i]
        /\ tracked_objects[i].bbox = detections[i].box
        /\ Get(disappeared_counts, issued[i], 0) = 0
    /\ result = [i \in 1..2 |->
                    Tracked(detections[i].class_name, detections[i].confidence,
                            detections[i].box, issued[i])]

\* neither box of the frame cur overlaps the other object's box of the frame
\* prev above the IoU threshold
NoCrossOverlap(prev, cur) ==
    \A i, j \in 1..2 :
        i # j => ~IouAbove(Iou(prev[i].box, cur[j].box), iou_threshold)

\* C4 amended, frame by frame: the first frame of such a run issues two ids
\* and counts both; and when the two tracks are the two objects, a frame in
\* which moreover neither box overlaps the other object's previous box above
\* the IoU threshold keeps them so: no third id is issued, the count stays 2.
C4_TwoObjectsApart ==
    [][(/\ frame_count' = frame_count + 1
        /\ \/ frame_count = 0
           \/ TwoTracked /\ NoCrossOverlap(detections, detections'))
       => TwoTracked']_vars

\* C4 witness: three frames, both objects matched in each, both have moved.
C4_BothFollowed ==
    /\ frame_count = 3
    /\ TwoTracked
    /\ \A i \in 1..2 :
        /\ tracked_objects[i].frames_tracked = 3
        /\ tracked_objects[i].center
             # object_lifespans[issued[i]].initial_position

\* track obj was matched in 3 frames and has now missed 5
PresentThenAbsent(obj) ==
    /\ obj.frames_tracked = 3
    /\ Get(disappeared_counts, obj.track_id, 0) = 5
    /\ 5 < max_disappeared

\* the call made in this step is update(<<d>>)
Reappears(d) ==
    /\ frame_count' = frame_count + 1
    /\ detections' = <<d>>

\* the detection d came back as track obj, and no id was issued
Resumes(obj, d) ==
    /\ result' = <<Tracked(d.class_name, d.confidence, d.box, obj.track_id)>>
    /\ next_object_id' = next_object_id
    /\ issued' = issued

\* C5 as claimed: when a track was present for 3 frames and then absent for
\* 5 (fewer than max_disappeared), a detection of its class whose center is
\* closer than 100 to the track's last position gets the track's id, and no
\* new id is issued.
C5_ResumesWhenNear ==
    [][\A i \in DOMAIN tracked_objects : \A d \in ReappearDetections :
        (/\ PresentThenAbsent(tracked_objects[i])
         /\ Reappears(d)
         /\ d.class_name = tracked_objects[i].class_name
         /\ CloserThan(Center(d.box), tracked_objects[i].center, 100))
        => Resumes(tracked_objects[i], d)]_vars

\* C5 amended: when a track was present for 3 frames and then absent for 5
\* (fewer than max_disappeared), the only detection of the next frame, of the
\* track's class, whose box overlaps the track's last box with IoU above
\* iou_threshold and no other active track's box above it, gets the track's
\* id, and no new id is issued.
C5_ResumesWhenOverlapping ==
    [][\A i \in DOMAIN tracked_objects : \A d \in ReappearDetections :
        (/\ PresentThenAbsent(tracked_objects[i])
         /\ Reappears(d)
         /\ d.class_name = tracked_objects[i].class_name
         /\ IouAbove(Iou(tracked_objects[i].bbox, d.box), iou_threshold)
         /\ \A j \in DOMAIN tracked_objects :
               j # i => ~IouAbove(Iou(tracked_objects[j].bbox, d.box), iou_threshold))
        => Resumes(tracked_objects[i], d)]_vars

\* C5 witness: frame 9 brought the track of frames 1..3 back, at a box that
\* overlaps its last one by less than 0.5.
C5_ResumedAfterFive ==
    /\ frame_count = 9
    /\ issued = <<1>>
    /\ Len(tracked_objects) = 1
    /\ tracked_objects[1].frames_tracked = 4
    /\ tracked_objects[1].last_seen_frame = 9
    /\ tracked_objects[1].bbox = BoxAt(160)
    /\ result = <<Tracked(tracked_objects[1].class_name, 90, BoxAt(160), 1)>>

\* C6 as claimed, "within 100" read as "at most 100": when a counted track
\* was present for 3 frames and then absent for 5 (fewer than
\* max_disappeared), and a detection of its class then appears with its center
\* at most 100 from the track's last position, the class count is still 1.
C6_NoCountWithin100 ==
    [][\A i \in DOMAIN tracked_objects : \A d \in ReappearDetections :
        (/\ PresentThenAbsent(tracked_objects[i])
         /\ tracked_objects[i].track_id \in DOMAIN object_lifespans
         /\ object_lifespans[tracked_objects[i].track_id].counted
         /\ Reappears(d)
         /\ d.class_name = tracked_objects[i].class_name
         /\ ~FartherThan(Center(d.box), tracked_objects[i].center, 100))
        => UniqueCount(d.class_name)' = 1]_vars

\* C6 amended: when a counted track was present for 3 frames and then absent
\* for 5 (fewer than max_disappeared), and a detection of its class then
\* appears with its center less than 100 from the track's last position, the
\* frame adds no count: the statistics are unchanged, the class still at 1.
C6_NoCountWhenNear ==
    [][\A i \in DOMAIN tracked_objects : \A d \in ReappearDetections :
        (/\ PresentThenAbsent(tracked_objects[i])
         /\ tracked_objects[i].track_id \in DOMAIN object_lifespans
         /\ object_lifespans[tracked_objects[i].track_id].counted
         /\ Reappears(d)
         /\ d.class_name = tracked_objects[i].class_name
         /\ CloserThan(Center(d.box), tracked_objects[i].center, 100))
        => /\ GetFrequencyStatistics' = GetFrequencyStatistics
           /\ GetFrequencyStatistics' = (d.class_name :> 1)]_vars

\* C6 witness: frame 9 brought a detection 90 from the track of frames 1..3;
\* it was not matched, got a new track, and that track was not counted.
C6_NearNewTrackUncounted ==
    /\ frame_count = 9
    /\ issued = <<1, 2>>
    /\ Len(tracked_objects) = 2
    /\ tracked_objects[1].frames_tracked = 3
    /\ tracked_objects[1].last_seen_frame = 3
    /\ tracked_objects[1].bbox = BoxAt(100)
    /\ tracked_objects[2].bbox = BoxAt(190)
    /\ tracked_objects[2].class_name = tracked_objects[1].class_name
    /\ object_lifespans[1].counted
    /\ ~object_lifespans[2].counted
    /\ UniqueCount(tracked_objects[1].class_name) = 1

\* C7: with max_disappeared = 30, after a counted track was present in frames
\* 1..3 and missed the 32 frames 4..35 (so that it was evicted), a detection
\* of its class in frame 36, at the same location or any other, gets a new
\* track_id and is counted as a second unique object: the count becomes 2.
C7_CountedAgainAfterEviction ==
    [][\A d \in ReappearDetections :
        (/\ max_disappeared = 30
         /\ frame_count = 35
         /\ tracked_objects = <<>>
         /\ issued = <<1>>
         /\ object_lifespans[1].counted
         /\ object_lifespans[1].birth_frame = 1
         /\ Reappears(d)
         /\ d.class_name = object_lifespans[1].class_name)
        => /\ issued' = <<1, 2>>
           /\ result' = <<Tracked(d.class_name, d.confidence, d.box, 2)>>
           /\ object_lifespans'[2].counted
           /\ GetFrequencyStatistics' = (d.class_name :> 2)]_vars

\* C7 witness: the object is back in frame 36 where it was born, as track 2,
\* counted, and track 1 is gone.
C7_SecondObjectAtSamePlace ==
    /\ frame_count = 36
    /\ issued = <<1, 2>>
    /\ ActiveIds(tracked_objects) = {2}
    /\ object_lifespans[2].birth_frame = 36
    /\ object_lifespans[2].counted
    /\ object_lifespans[2].initial_position = object_lifespans[1].initial_position
    /\ object_lifespans[2].class_name = object_lifespans[1].class_name
    /\ UniqueCount(object_lifespans[1].class_name) = 2

\* the first frame was five detections of class_name, pairwise more than 100
\* apart
BurstOfFive(class_name) ==
    /\ frame_count = 1
    /\ Len(detections) = 5
    /\ \A i \in 1..5 : detections[i].class_name = class_name
    /\ \A i, j \in 1..5 :
          i < j => FartherThan(Center(detections[i].box), Center(detections[j].box), 100)

\* C8: on a fresh tracker, after a first frame of five detections of one class
\* pairwise more than 100 apart, the five have the track_ids 1..5 in input
\* order, all five tracks are active and returned, exactly the first three
\* are counted, and the statistics are 3 for the class and nothing else.
C8_FirstThreeOfFiveCounted ==
    \A c \in Classes :
        BurstOfFive(c) =>
            /\ issued = <<1, 2, 3, 4, 5>>
            /\ result = [i \in 1..5 |->
                            Tracked(c, detections[i].confidence, detections[i].box, i)]
            /\ TrackIds(tracked_objects) = <<1, 2, 3, 4, 5>>
            /\ \A i \in 1..5 : disappeared_counts[i] = 0
            /\ \A i \in 1..5 : object_lifespans[i].counted <=> i <= 3
            /\ counted_objects = {1, 2, 3}
            /\ GetFrequencyStatistics = (c :> 3)

\* C8 witness: five persons arrived right to left; the two leftmost, last in
\* input order, are tracked and not counted.
C8_FivePersonsRightToLeft ==
    /\ BurstOfFive("person")
    /\ detections[1].box = BoxAt(850)
    /\ detections[5].box = BoxAt(100)
    /\ ActiveIds(tracked_objects) = {1, 2, 3, 4, 5}
    /\ ~object_lifespans[4].counted
    /\ ~object_lifespans[5].counted
    /\ UniqueCount("person") = 3

\* the detections of the last frame that are of class_name, other than the j-th
OthersOfClass(dets, class_name, j) ==
    {i \in DOMAIN dets : i # j /\ dets[i].class_name = class_name}

\* C9: when an active track has missed one or more frames (its counter is
\* between 1 and max_disappeared) and a frame has a detection whose box has
\* IoU above iou_threshold with that track's last box and with no other
\* active track's, while the track's box has IoU above iou_threshold with no
\* other detection of the frame, then the frame returns the detection under
\* the track's id, issues an id for at most every other detection, and raises
\* each class count by at most the number of other detections of that class.
C9_ReappearanceMatched ==
    [][\A i \in DOMAIN tracked_objects : \A j \in DOMAIN detections' :
        LET track == tracked_objects[i]
            d == detections'[j]
        IN  (/\ frame_count' = frame_count + 1
             /\ Get(disappeared_counts, track.track_id, 0) >= 1
             /\ Get(disappeared_counts, track.track_id, 0) <= max_disappeared
             /\ IouAbove(Iou(track.bbox, d.box), iou_threshold)
             /\ \A i2 \in DOMAIN tracked_objects :
                   i2 # i => ~IouAbove(Iou(tracked_objects[i2].bbox, d.box), iou_threshold)
             /\ \A j2 \in DOMAIN detections' :
                   j2 # j => ~IouAbove(Iou(track.bbox, detections'[j2].box), iou_threshold))
            => /\ \E r \in DOMAIN result' :
                     result'[r] = Tracked(track.class_name, d.confidence, d.box,
                                          track.track_id)
               /\ Len(issued') - Len(issued) <= Len(detections') - 1
               /\ \A c \in Classes :
                     UniqueCount(c)' - UniqueCount(c)
                         <= Cardinality(OthersOfClass(detections', c, j))]_vars

\* C9 witness: a track seen in frame 1 missed frames 2 and 3 and was matched
\* again in frame 4, at a box overlapping its last one by less than 0.5, while
\* another track was matched in all four frames; no third id was issued.
C9_BackAfterTwoMisses ==
    /\ frame_count = 4
    /\ Len(issued) = 2
    /\ \E i, k \in DOMAIN tracked_objects :
          /\ tracked_objects[i].first_seen_frame = 1
          /\ tracked_objects[i].frames_tracked = 2
          /\ tracked_objects[i].last_seen_frame = 4
          /\ tracked_objects[i].center # object_lifespans[tracked_objects[i].track_id].initial_position
          /\ tracked_objects[k].frames_tracked = 4
          /\ \E r \in DOMAIN result : result[r].track_id = tracked_objects[i].track_id

\* the detections of the last frame that are of class_name
OfClass(dets, class_name) == {i \in DOMAIN dets : dets[i].class_name = class_name}

\* the last frame's boxes are pairwise disjoint, no class has more than 3, and
\* no two of one class have centers closer than spatial_threshold
SparseFrame(dets) ==
    /\ \A i, j \in DOMAIN dets : i < j => Intersection(dets[i].box, dets[j].box) = 0
    /\ \A c \in Classes : Cardinality(OfClass(dets, c)) <= 3
    /\ \A i, j \in DOMAIN dets :
          (i < j /\ dets[i].class_name = dets[j].class_name)
              => ~CloserThan(Center(dets[i].box), Center(dets[j].box), spatial_threshold)

\* C10: on a fresh tracker, after a first frame whose boxes are pairwise
\* disjoint, with at most 3 detections per class and same-class centers at
\* least spatial_threshold apart, the count of every class is the number of
\* detections of that class in the frame.
C10_EveryDetectionCounted ==
    (frame_count = 1 /\ SparseFrame(detections))
        => \A c \in Classes : UniqueCount(c) = Cardinality(OfClass(detections, c))

\* C10 witness: three cars and two persons in the first frame, two of the
\* cars exactly spatial_threshold apart; 3 cars and 2 persons are counted.
C10_ThreeCarsTwoPersons ==
    /\ frame_count = 1
    /\ SparseFrame(detections)
    /\ Cardinality(OfClass(detections, "car")) = 3
    /\ Cardinality(OfClass(detections, "person")) = 2
    /\ \E i, j \in OfClass(detections, "car") :
          /\ detections[i].box = BoxAt(700)
          /\ detections[j].box = BoxAt(800)
    /\ UniqueCount("car") = 3
    /\ UniqueCount("person") = 2

\* the step is a call of update()
UpdateCalled == frame_count' = frame_count + 1

\* the one-to-one correspondences between n records and n detections
Bijections(n) == {f \in [1..n -> 1..n] : \A i, j \in 1..n : f[i] = f[j] => i = j}

\* the track_ids of a returned list are pairwise distinct
DistinctIds(results) ==
    \A i, j \in DOMAIN results : results[i].track_id = results[j].track_id => i = j

\* C11 as claimed: update() of a non-empty frame returns one record per
\* detection, each with the class_name, confidence and box of its detection
\* and a track_id, the track_ids pairwise distinct.
C11_DetectionsAnnotated ==
    [][(UpdateCalled /\ detections' # <<>>)
        => /\ Len(result') = Len(detections')
           /\ DistinctIds(result')
           /\ \E f \in Bijections(Len(detections')) :
                 \A r \in DOMAIN result' :
                    /\ result'[r].class_name = detections'[f[r]].class_name
                    /\ result'[r].confidence = detections'[f[r]].confidence
                    /\ result'[r].box = detections'[f[r]].box]_vars

\* C11, the part update() keeps: one record per detection, each with the
\* confidence and box of its detection, a track_id, and the class_name of that
\* track, which is the detection's class_name when the track was created for
\* the detection in this call; the track_ids are pairwise distinct.
C11_DetectionsFollowedByTracks ==
    [][(UpdateCalled /\ detections' # <<>>)
        => /\ Len(result') = Len(detections')
           /\ DistinctIds(result')
           /\ \E f \in Bijections(Len(detections')) :
                 \A r \in DOMAIN result' :
                    /\ result'[r].confidence = detections'[f[r]].confidence
                    /\ result'[r].box = detections'[f[r]].box
                    /\ result'[r].class_name
                         = object_lifespans'[result'[r].track_id].class_name
                    /\ result'[r].track_id \notin ActiveIds(tracked_objects)
                         => result'[r].class_name = detections'[f[r]].class_name]_vars

\* C11 witness: a frame of two detections came back as two records; one is a
\* person detection that was matched to a car track and is returned as a car.
C11_PersonReturnedAsCar ==
    /\ Len(detections) = 2
    /\ Len(result) = 2
    /\ \E r \in DOMAIN result : \E j \in DOMAIN detections :
          /\ result[r].box = detections[j].box
          /\ detections[j].class_name = "person"
          /\ result[r].class_name = "car"
          /\ \A k \in DOMAIN detections : k # j => detections[k].box # detections[j].box

\* the active tracks whose counter is 0, as returned records
SeenThisFrame ==
    {Tracked(tracked_objects[i].class_name, tracked_objects[i].confidence,
             tracked_objects[i].bbox, tracked_objects[i].track_id) :
        i \in {k \in DOMAIN tracked_objects :
                  /\ tracked_objects[k].track_id \in DOMAIN disappeared_counts
                  /\ disappeared_counts[tracked_objects[k].track_id] = 0}}

\* C12: the list update() returns holds, once each, exactly the active tracks
\* whose counter is 0 after the call, with their id, class, confidence and
\* box; these are the tracks matched or created in this call, so no stale and
\* no evicted track is in it; for an empty frame the list is empty.
C12_OutputIsTracksSeen ==
    [][UpdateCalled
        => /\ {result'[r] : r \in DOMAIN result'} = SeenThisFrame'
           /\ Len(result') = Cardinality(SeenThisFrame')
           /\ \A r \in DOMAIN result' :
                 \/ result'[r].track_id \notin ActiveIds(tracked_objects)
                 \/ TrackOf(tracked_objects', result'[r].track_id).last_seen_frame
                       = frame_count'
           /\ detections' = <<>> => result' = <<>>]_vars

\* C12 witness: after an update() one active track is returned and another,
\* which missed the frame, is active and not returned.
C12_StaleTrackLeftOut ==
    /\ frame_count >= 2
    /\ Len(result) = 1
    /\ \E i \in DOMAIN tracked_objects :
          /\ disappeared_counts[tracked_objects[i].track_id] = 1
          /\ \A r \in DOMAIN result : result[r].track_id # tracked_objects[i].track_id

\* the elements of a sequence
Range(seq) == {seq[i] : i \in DOMAIN seq}

\* matched_pairs, with its unmatched tracks and detections, splits the
\* num_tracks tracks and the num_detections detections
Partitions(matched_pairs, num_tracks, num_detections) ==
    LET unmatched_tracks == UnmatchedTracks(matched_pairs, num_tracks)
        unmatched_detections == UnmatchedDetections(matched_pairs, num_detections)
        matched_tracks == {p[1] : p \in matched_pairs}
        matched_detections == {p[2] : p \in matched_pairs}
    IN  /\ matched_pairs \subseteq (1..num_tracks) \X (1..num_detections)
        /\ \A p, q \in matched_pairs : (p[1] = q[1] \/ p[2] = q[2]) => p = q
        /\ matched_tracks \cup Range(unmatched_tracks) = 1..num_tracks
        /\ matched_tracks \cap Range(unmatched_tracks) = {}
        /\ Cardinality(matched_pairs) + Len(unmatched_tracks) = num_tracks
        /\ matched_detections \cup Range(unmatched_detections) = 1..num_detections
        /\ matched_detections \cap Range(unmatched_detections) = {}
        /\ Cardinality(matched_pairs) + Len(unmatched_detections) = num_detections

\* C13: whatever frame update() is called with next, every matching the
\* matcher can return for the active tracks and the frame's detections is
\* one-to-one, its matched and unmatched track indices partition the active
\* tracks, and its matched and unmatched detection indices partition the
\* frame's detections.
C13_MatchingPartitions ==
    \A dets \in GapFrames :
        \A matched_pairs \in Matchings(Self, dets) :
            Partitions(matched_pairs, Len(tracked_objects), Len(dets))

\* C13 witness: two tracks are active and some frame of two detections is
\* matched with one pair, leaving one track and one detection unmatched,
\* although both tracks overlap the matched detection above the threshold.
C13_OnePairOneLeftEachSide ==
    /\ Len(tracked_objects) = 2
    /\ \E dets \in GapFrames :
          /\ Len(dets) = 2
          /\ \E j \in DOMAIN dets : \A i \in DOMAIN tracked_objects :
                IouAbove(Iou(tracked_objects[i].bbox, dets[j].box), iou_threshold)
          /\ \E matched_pairs \in Matchings(Self, dets) :
                /\ Cardinality(matched_pairs) = 1
                /\ Len(UnmatchedTracks(matched_pairs, 2)) = 1
                /\ Len(UnmatchedDetections(matched_pairs, 2)) = 1

\* the track_ids of a returned list
ReturnedIds(results) == {results[r].track_id : r \in DOMAIN results}

\* the ids issued since construction or the last reset() that are not active
Evicted == Range(issued) \ ActiveIds(tracked_objects)

C15_CountersOfActiveTracks ==
    /\ DOMAIN disappeared_counts = ActiveIds(tracked_objects)
    /\ \A id \in DOMAIN disappeared_counts :
          disappeared_counts[id] \in 0..max_disappeared

\* C15 witness: with max_disappeared = 1, one active track has missed one
\* frame and another was seen in the last frame.
C15_StaleAtTheLimit ==
    /\ max_disappeared = 1
    /\ \E id1, id2 \in DOMAIN disappeared_counts :
          /\ disappeared_counts[id1] = max_disappeared
          /\ disappeared_counts[id2] = 0
    /\ Evicted # {}

\* the lifespan records are those of the ids 1 .. next_object_id - 1, which
\* are the ids issued
RecordsOfIssuedIds ==
    /\ DOMAIN object_lifespans = 1..(next_object_id - 1)
    /\ DOMAIN object_lifespans = Range(issued)

\* C16: between construction or a reset() and the next reset(), the ids with
\* a lifespan record are exactly the ids issued, 1 .. next_object_id - 1; a
\* record is written when its id is issued, with the frame of the call as
\* birth frame, and no update() call removes or changes an existing record,
\* whether its track is active or evicted.
C16_LifespanRecordsKept ==
    /\ RecordsOfIssuedIds
    /\ [][/\ RecordsOfIssuedIds'
          /\ UpdateCalled =>
                /\ \A id \in DOMAIN object_lifespans :
                      /\ id \in DOMAIN object_lifespans'
                      /\ object_lifespans'[id] = object_lifespans[id]
                /\ \A id \in DOMAIN object_lifespans' \ DOMAIN object_lifespans :
                      object_lifespans'[id].birth_frame = frame_count']_vars

\* C16 witness: two tracks were evicted; their records are kept, one counted
\* and one not, beside the record of an active track.
C16_RecordsOfEvictedTracks ==
    /\ Cardinality(Evicted) >= 2
    /\ \E id1, id2 \in Evicted :
          /\ object_lifespans[id1].counted
          /\ ~object_lifespans[id2].counted
    /\ \E id \in ActiveIds(tracked_objects) : id \in DOMAIN object_lifespans

\* the step is a call of op by a caller that logs its calls
Called(op) ==
    /\ Len(calls') = Len(calls) + 1
    /\ calls'[Len(calls')].op = op

\* the calls of a history that are not read operations
WithoutReads(cs) == SelectSeq(cs, LAMBDA c : c.op \notin ReadOperations)

\* the runs of the calls cs, made in this order on tracker s: the possible
\* <<tracker after, values returned>>
RECURSIVE Runs(_, _)
Runs(s, cs) ==
    IF cs = <<>> THEN {<<s, <<>>>>}
    ELSE UNION {{<<run[1], <<outcome[2]>> \o run[2]>> : run \in Runs(outcome[1], Tail(cs))} :
                    outcome \in Apply(s, Head(cs).op, Head(cs).args)}

\* the tracker s and the values in the history cs are what the calls of cs
\* give when made, alone and in this order, on a new tracker configured as s
RanAlone(s, cs) ==
    <<s, [i \in DOMAIN cs |-> cs[i].returned]>>
        \in Runs(NewTracker(s.max_disappeared, s.iou_threshold), cs)

\* C17: a call of get_frequency_statistics(), get_tracking_summary() or
\* get_debug_info() leaves every attribute of the tracker as it was; when the
\* call before it was the same operation, it returns the same value; and
\* after any calls the tracker, and what the other calls returned, are as if
\* only the other calls had been made.
C17_ReadsChangeNothing ==
    [][/\ (\E op \in ReadOperations : Called(op))
            => /\ Self' = Self
               /\ (calls # <<>> /\ calls[Len(calls)].op = calls'[Len(calls')].op)
                     => calls'[Len(calls')].returned = calls[Len(calls)].returned
       /\ RanAlone(Self', WithoutReads(calls'))]_vars

\* C17 witness: a frame was counted, get_tracking_summary() was called twice
\* in a row, and a further frame was then processed and returned a track.
C17_ReadTwiceBetweenFrames ==
    /\ Len(calls) = 4
    /\ calls[1].op = "update" /\ calls[1].returned # <<>>
    /\ calls[2].op = "get_tracking_summary"
    /\ calls[3].op = "get_tracking_summary"
    /\ calls[2].returned.total_unique_objects >= 1
    /\ calls[4].op = "update" /\ calls[4].returned # <<>>

\* C19: reset() leaves no active track, counter, lifespan record, counted id
\* or frequency count, sets the frame counter to 0 and next_object_id to 1,
\* and leaves max_disappeared, iou_threshold and spatial_threshold as they
\* were: the tracker is a newly constructed one with these thresholds.
C19_ResetGivesNewTracker ==
    [][Called("reset")
        => /\ tracked_objects' = <<>>
           /\ disappeared_counts' = EmptyDict
           /\ object_lifespans' = EmptyDict
           /\ counted_objects' = {}
           /\ unique_object_frequencies' = EmptyDict
           /\ frame_count' = 0
           /\ next_object_id' = 1
           /\ UNCHANGED <<max_disappeared, iou_threshold, spatial_threshold>>
           /\ Self' = SetSpatialThreshold(NewTracker(max_disappeared, iou_threshold),
                                          spatial_threshold)]_vars

\* C19 witness: the threshold was set to 150, a frame left two counted
\* tracks, and reset() was called: the tracker is empty, the threshold 150.
C19_ResetAfterTwoTracks ==
    /\ Len(calls) = 3
    /\ calls[1].op = "set_spatial_threshold"
    /\ calls[2].op = "update" /\ Len(calls[2].returned) = 2
    /\ SumOver(calls[2].statistics, DOMAIN calls[2].statistics) = 2
    /\ calls[3].op = "reset"
    /\ spatial_threshold = 150
    /\ next_object_id = 1
    /\ object_lifespans = EmptyDict

\* C18: when a run of frames was fed to a tracker, reset() was called and
\* the same frames are fed again, every frame of the second run returns the
\* records, with the track_ids, that it returned in the first run and leaves
\* the frequency counts it left in the first run; so the final counts of the
\* two runs are the same.
C18_SecondRunRepeatsFirst ==
    HasReset(calls) =>
        \A j \in 1..(Len(calls) - FirstRun(calls) - 1) :
            LET first == calls[j]
                second == calls[FirstRun(calls) + 1 + j]
            IN  (first.op = "update" /\ second.op = "update" /\ second.args = first.args)
                    => /\ second.returned = first.returned
                       /\ second.statistics = first.statistics
                       /\ j = FirstRun(calls) => GetFrequencyStatistics = first.statistics

\* C18 witness: a run of three frames was repeated after reset(); its second
\* frame has a detection that overlaps two tracks equally and went to the
\* second of them, its third frame created a third track.
C18_ThreeFramesTwice ==
    /\ Len(calls) = 7
    /\ calls[4].op = "reset"
    /\ Len(calls[1].returned) = 2
    /\ Len(calls[2].returned) = 1
    /\ calls[2].returned[1].track_id = 2
    /\ \E r \in DOMAIN calls[3].returned : calls[3].returned[r].track_id = 3
    /\ calls[7].args = calls[3].args
    /\ calls[7].returned = calls[3].returned
    /\ UniqueCount("car") >= 2

\* C20: when calls of update(), reset() and a read operation on two
\* trackers are interleaved in any order, a call on one tracker leaves the
\* other tracker and its history as they were, and each tracker, and what
\* its calls returned, are what its own calls give when made alone.
C20_InstancesAreIsolated ==
    [][/\ calls' # calls => other' = other
       /\ other' # other => Self' = Self /\ calls' = calls
       /\ RanAlone(Self', calls')
       /\ RanAlone(other'.tracker, other'.calls)]_vars

\* C20 witness: the first tracker issued ids 1 and 2; then the second
\* tracker, called for the first time, returned id 1; then the first was
\* reset and the second returned ids 1 and 2.
C20_BothIssueTheirOwnIds ==
    /\ Len(calls) = 2 /\ Len(other.calls) = 2
    /\ calls[1].op = "update" /\ ReturnedIds(calls[1].returned) = {1, 2}
    /\ calls[2].op = "reset"
    /\ tracked_objects = <<>>
    /\ other.calls[1].op = "update" /\ ReturnedIds(other.calls[1].returned) = {1}
    /\ other.calls[2].op = "update" /\ ReturnedIds(other.calls[2].returned) = {1, 2}
    /\ other.tracker.next_object_id = 3

\* C21: update() rejects each detection whose box has x1 >= x2 or y1 >= y2
\* or whose confidence is outside [0, 1]: the tracker and the records
\* returned are those of the call with only the other detections of the
\* frame, so the rejected detection creates no track, is matched to no
\* track and changes no counter and no frequency count.
C21_MalformedDetectionRejected ==
    [][UpdateCalled
        => \E outcome \in UpdateOutcomes(Self, SelectSeq(detections', WellFormed)) :
              /\ Self' = outcome[1]
              /\ result' = outcome[2]]_vars

\* C21, as update() behaves: a detection with x1 > x2 was given a track, was
\* counted, and is returned with its track_id.
C21_InvertedBoxTrackedAndCounted ==
    \E r \in DOMAIN result :
        /\ result[r].box[1] > result[r].box[3]
        /\ result[r].track_id \in counted_objects
        /\ UniqueCount(result[r].class_name) >= 1

\* the ids issued by the call
NewIds == DOMAIN object_lifespans' \ DOMAIN object_lifespans

\* the tracks that were active before the call, as they are in the active
\* mapping while the call creates tracks: a matched track has been moved to
\* its detection, an unmatched one is where it was and is not yet evicted
ActiveBefore ==
    {IF id \in ActiveIds(tracked_objects') THEN TrackOf(tracked_objects', id)
     ELSE TrackOf(tracked_objects, id) : id \in ActiveIds(tracked_objects)}

\* when track n was created, another track of its class was in the active
\* mapping with its center less than spatial_threshold away
OverlapFires(n) ==
    LET new == object_lifespans'[n]
    IN  \/ \E obj \in ActiveBefore :
              /\ obj.class_name = new.class_name
              /\ CloserThan(new.initial_position, obj.center, spatial_threshold)
        \/ \E earlier \in NewIds :
              /\ earlier < n
              /\ object_lifespans'[earlier].class_name = new.class_name
              /\ CloserThan(new.initial_position,
                            object_lifespans'[earlier].initial_position,
                            spatial_threshold)

\* C22: a track created for a detection of class c while another track of
\* class c of the active mapping (matched in the call, stale, or created
\* earlier in the call) has its center less than spatial_threshold from the
\* detection's center is not counted: its record has counted = false, its id
\* is not in the counted set, and the count of c does not change when this
\* is so for every track of class c the call creates.
C22_NearActiveTrackNotCounted ==
    [][UpdateCalled
        => /\ \A n \in NewIds :
                OverlapFires(n) => /\ ~object_lifespans'[n].counted
                                   /\ n \notin counted_objects'
           /\ \A c \in Classes :
                (\A n \in NewIds : object_lifespans'[n].class_name = c => OverlapFires(n))
                    => Get(unique_object_frequencies', c, 0) = UniqueCount(c)]_vars

\* C22 witness: a car at 100 was counted; in the next frame the only car is
\* 70 to the right, overlapping too little to be matched: the old track is
\* stale, the new track is uncounted, the count of cars is still 1.
C22_NewTrackBesideStaleTrack ==
    /\ Len(tracked_objects) = 2
    /\ tracked_objects[1].class_name = tracked_objects[2].class_name
    /\ tracked_objects[1].bbox = BoxAt(100)
    /\ tracked_objects[2].bbox = BoxAt(170)
    /\ disappeared_counts[tracked_objects[1].track_id] = 1
    /\ tracked_objects[2].first_seen_frame = frame_count
    /\ object_lifespans[tracked_objects[1].track_id].counted
    /\ ~object_lifespans[tracked_objects[2].track_id].counted
    /\ UniqueCount(tracked_objects[1].class_name) = 1

\* when track n was created, a counted record of its class, of a track no
\* longer active, not more than 10 frames old, had its birth center less
\* than spatial_threshold from the new detection's center
RecoveryFires(n) ==
    LET new == object_lifespans'[n]
    IN  \E id \in DOMAIN object_lifespans :
            /\ object_lifespans[id].class_name = new.class_name
            /\ object_lifespans[id].counted
            /\ id \notin ActiveIds(tracked_objects)
            /\ object_lifespans[id].birth_frame >= frame_count' - 10
            /\ CloserThan(new.initial_position, object_lifespans[id].initial_position,
                          spatial_threshold)

\* C23: a track created at frame f for a detection of class c, while a
\* record of class c with counted = true, of a track that is no longer
\* active, born at frame f - 10 or later, has its birth center less than
\* spatial_threshold from the detection's center, is not counted.
C23_NearLostTrackNotCounted ==
    [][UpdateCalled
        => \A n \in NewIds :
              RecoveryFires(n) => /\ ~object_lifespans'[n].counted
                                  /\ n \notin counted_objects'
                                  /\ Get(unique_object_frequencies',
                                         object_lifespans'[n].class_name, 0)
                                       = UniqueCount(object_lifespans'[n].class_name)]_vars

\* C23 witness: a track born and counted at frame 1 was evicted; at frame
\* 11 a detection of its class 70 from its birth center is the only
\* detection and the only active track, and it is not counted.
C23_BackTenFramesAfterBirth ==
    /\ frame_count = 11
    /\ Len(tracked_objects) = 1
    /\ tracked_objects[1].track_id = 2
    /\ tracked_objects[1].bbox = BoxAt(170)
    /\ object_lifespans[1].birth_frame = 1
    /\ object_lifespans[1].counted
    /\ object_lifespans[1].class_name = object_lifespans[2].class_name
    /\ object_lifespans[2].birth_frame = 11
    /\ ~object_lifespans[2].counted
    /\ UniqueCount(object_lifespans[2].class_name) = 1

\* when track n was created at frame f, at least 3 records of its class with
\* counted = true had a birth frame b with f - b < 5
RateLimitFires(n) ==
    Cardinality({id \in DOMAIN object_lifespans' :
        /\ id < n
        /\ object_lifespans'[id].class_name = object_lifespans'[n].class_name
        /\ object_lifespans'[id].counted
        /\ frame_count' - object_lifespans'[id].birth_frame < 5}) >= 3

\* C24: a track created at frame f for a detection of class c, when at least
\* 3 records of class c with counted = true have a birth frame within the
\* last 5 frames (f - birth_frame < 5), is not counted.
C24_FourthInFiveFramesNotCounted ==
    [][UpdateCalled
        => \A n \in NewIds :
              RateLimitFires(n) => /\ ~object_lifespans'[n].counted
                                   /\ n \notin counted_objects']_vars

\* C24 witness: three cars were counted at frames 1, 2 and 3; a fourth car,
\* far from all of them, appears at frame 5, when the first is 4 frames old,
\* and is tracked but not counted.
C24_FourthCarAtFrameFive ==
    /\ frame_count = 5
    /\ Len(tracked_objects) = 4
    /\ \A id \in 1..3 : /\ object_lifespans[id].class_name = "car"
                        /\ object_lifespans[id].counted
                        /\ object_lifespans[id].birth_frame = id
    /\ object_lifespans[4].class_name = "car"
    /\ object_lifespans[4].birth_frame = 5
    /\ ~object_lifespans[4].counted
    /\ UniqueCount("car") = 3

\* the tracks the call created and counted
NewCounted == {n \in NewIds : object_lifespans'[n].counted}

\* C25: a track created by update() is counted exactly when none of the
\* recovery, overlap and rate-limit checks fires for it; the counted set
\* grows by exactly the ids of the counted tracks, the count of every class
\* grows by the number of counted tracks of that class (by 1 for each, by 0
\* for a class with none), and counted = true stands in exactly their
\* records.
C25_CountedIffNoCheckFires ==
    [][UpdateCalled
        => /\ \A n \in NewIds :
                object_lifespans'[n].counted
                    <=> ~(RecoveryFires(n) \/ OverlapFires(n) \/ RateLimitFires(n))
           /\ counted_objects' = counted_objects \cup NewCounted
           /\ counted_objects \cap NewIds = {}
           /\ \A c \in Classes :
                Get(unique_object_frequencies', c, 0)
                    = UniqueCount(c)
                        + Cardinality({n \in NewCounted :
                                          object_lifespans'[n].class_name = c})]_vars

\* C25 witness: of four cars of the first frame three were counted; in the
\* second frame a person beside the first car got a track and was counted:
\* one person, still three cars.
C25_PersonCountedCarsUnchanged ==
    /\ frame_count = 2
    /\ next_object_id = 6
    /\ \A id \in 1..4 : object_lifespans[id].class_name = "car"
    /\ {id \in 1..4 : object_lifespans[id].counted} = {1, 2, 3}
    /\ object_lifespans[5].class_name = "person"
    /\ object_lifespans[5].birth_frame = 2
    /\ object_lifespans[5].counted
    /\ counted_objects = {1, 2, 3, 5}
    /\ UniqueCount("car") = 3
    /\ UniqueCount("person") = 1

\* the values of matched_pairs with which the call gives the tracker and the
\* records it gave; no matching is made for an empty frame or without tracks
MatchingsOfCall ==
    LET s1 == [Self EXCEPT !.frame_count = @ + 1]
    IN  IF detections' = <<>> \/ tracked_objects = <<>> THEN {{}}
        ELSE {matched_pairs \in Matchings(s1, detections') :
                UpdateTracks(s1, detections', matched_pairs) = <<Self', result'>>}

\* C26: in every update() call a detection is matched only to a track whose
\* class label equals the detection's class label.
C26_MatchedPairsOfOneClass ==
    [][UpdateCalled
        => \A matched_pairs \in MatchingsOfCall : \A p \in matched_pairs :
              tracked_objects[p[1]].class_name = detections'[p[2]].class_name]_vars

\* C26, as update() behaves: a track created for a car was matched, a frame
\* later, to a person detected 20 to the right, and moved there; no person
\* was ever counted.
C26_CarTrackFollowsPerson ==
    /\ frame_count = 2
    /\ Len(tracked_objects) = 1
    /\ tracked_objects[1].class_name = "car"
    /\ tracked_objects[1].frames_tracked = 2
    /\ tracked_objects[1].bbox = BoxAt(120)
    /\ detections = <<Detection("person", 80, BoxAt(120))>>
    /\ UniqueCount("person") = 0

\* the number of update() calls since track obj was last matched or created
Missed(obj) == frame_count - obj.last_seen_frame

\* C27: a track unmatched for k consecutive update() calls is in the active
\* mapping, with counter k, while k <= max_disappeared, where a later call
\* can match it again; it is removed at the end of exactly the call in which
\* k reaches max_disappeared + 1.  So no active track has gone more than
\* max_disappeared calls without a match.
C27_EvictedAtMaxDisappearedPlusOne ==
    [][/\ \A i \in DOMAIN tracked_objects' :
             frame_count' - tracked_objects'[i].last_seen_frame <= max_disappeared'
       /\ UpdateCalled
            => \A i \in DOMAIN tracked_objects :
                  LET obj == tracked_objects[i]
                      k == Missed(obj) + 1
                  IN  IF obj.track_id \in ActiveIds(tracked_objects')
                      THEN LET after == TrackOf(tracked_objects', obj.track_id)
                           IN  \/ /\ after.last_seen_frame = frame_count'
                                  /\ disappeared_counts'[obj.track_id] = 0
                               \/ /\ after.last_seen_frame = obj.last_seen_frame
                                  /\ k <= max_disappeared
                                  /\ disappeared_counts'[obj.track_id] = k
                      ELSE /\ k = max_disappeared + 1
                           /\ obj.track_id \notin DOMAIN disappeared_counts'
                           /\ obj.track_id \notin ReturnedIds(result')]_vars

\* C27 witness: with max_disappeared = 1 a track missed one frame, stayed
\* active, and was matched again in the frame after.
C27_MatchedAgainAtTheLimit ==
    /\ max_disappeared = 1
    /\ frame_count = 3
    /\ \E i \in DOMAIN tracked_objects :
          /\ tracked_objects[i].track_id = 1
          /\ tracked_objects[i].first_seen_frame = 1
          /\ tracked_objects[i].last_seen_frame = 3
          /\ tracked_objects[i].frames_tracked = 2
          /\ disappeared_counts[1] = 0
          /\ 1 \in ReturnedIds(result)

\* C28: for each matched (track, detection) pair of an update() call at
\* frame f, after the call the track has the detection's box and confidence,
\* its center is the midpoint of that box, last_seen_frame = f, frames_tracked
\* is 1 more than before and its counter is 0; its track_id, class label and
\* first_seen_frame are as before.
C28_MatchedTrackTakesDetection ==
    [][UpdateCalled
        => /\ MatchingsOfCall # {}
           /\ \A matched_pairs \in MatchingsOfCall : \A p \in matched_pairs :
                LET obj == tracked_objects[p[1]]
                    detection == detections'[p[2]]
                IN  /\ obj.track_id \in ActiveIds(tracked_objects')
                    /\ LET after == TrackOf(tracked_objects', obj.track_id)
                       IN  /\ after.bbox = detection.box
                           /\ after.confidence = detection.confidence
                           /\ after.center[1] = detection.box[1] + detection.box[3]
                           /\ after.center[2] = detection.box[2] + detection.box[4]
                           /\ after.last_seen_frame = frame_count'
                           /\ after.frames_tracked = obj.frames_tracked + 1
                           /\ after.class_name = obj.class_name
                           /\ after.first_seen_frame = obj.first_seen_frame
                    /\ disappeared_counts'[obj.track_id] = 0]_vars

\* C28 witness: two tracks created at 100 and 270 with confidence 80 were
\* matched in the second frame to detections at 120 and 230 with confidences
\* 90 and 80, and stand there with these confidences.
C28_BothMovedOneMoreConfident ==
    /\ frame_count = 2
    /\ Len(tracked_objects) = 2
    /\ \A i \in 1..2 : /\ tracked_objects[i].track_id = i
                       /\ tracked_objects[i].first_seen_frame = 1
                       /\ tracked_objects[i].last_seen_frame = 2
                       /\ tracked_objects[i].frames_tracked = 2
                       /\ disappeared_counts[i] = 0
    /\ object_lifespans[1].initial_position = Center(BoxAt(100))
    /\ object_lifespans[2].initial_position = Center(BoxAt(270))
    /\ tracked_objects[1].bbox = BoxAt(120) /\ tracked_objects[1].confidence = 90
    /\ tracked_objects[2].bbox = BoxAt(230) /\ tracked_objects[2].confidence = 80
    /\ tracked_objects[1].center = <<340, 300>>

\* C29: a track left unmatched by an update() call with a non-empty
\* detection list has its counter increased by exactly 1 and its box,
\* confidence, center, class, first_seen_frame, last_seen_frame and
\* frames_tracked left as they were; when the counter so reached exceeds
\* max_disappeared, the track is evicted at the end of the call.
C29_UnmatchedTrackAgedOnly ==
    [][(UpdateCalled /\ detections' # <<>>)
        => \A matched_pairs \in MatchingsOfCall :
              \A i \in DOMAIN tracked_objects \ {p[1] : p \in matched_pairs} :
                LET obj == tracked_objects[i]
                    counter == Get(disappeared_counts, obj.track_id, 0) + 1
                IN  IF obj.track_id \in ActiveIds(tracked_objects')
                    THEN /\ TrackOf(tracked_objects', obj.track_id) = obj
                         /\ disappeared_counts'[obj.track_id] = counter
                         /\ counter <= max_disappeared
                    ELSE counter > max_disappeared]_vars

\* C29 witness: of two tracks created in the first frame, the second frame,
\* with one detection, matched one; the other stands unchanged with counter
\* 1, not returned.
C29_OneOfTwoLeftUnmatched ==
    /\ frame_count = 2
    /\ Len(detections) = 1
    /\ Len(tracked_objects) = 2
    /\ \E i, j \in 1..2 :
          /\ tracked_objects[i].last_seen_frame = 2
          /\ tracked_objects[i].frames_tracked = 2
          /\ disappeared_counts[tracked_objects[i].track_id] = 0
          /\ tracked_objects[j].last_seen_frame = 1
          /\ tracked_objects[j].first_seen_frame = 1
          /\ tracked_objects[j].frames_tracked = 1
          /\ tracked_objects[j].bbox = BoxAt(400)
          /\ tracked_objects[j].center = Center(BoxAt(400))
          /\ disappeared_counts[tracked_objects[j].track_id] = 1
          /\ ReturnedIds(result) = {tracked_objects[i].track_id}

\* C30: update() with an empty detection list adds 1 to the frame counter
\* and to the counter of every active track, then removes the tracks whose
\* counter exceeds max_disappeared with their counters, and returns an empty
\* list; it changes no remaining track, creates no track, issues no id and
\* changes no frequency count, counted set or lifespan record.
C30_EmptyFrameAgesAndEvicts ==
    [][(Called("update") /\ calls'[Len(calls')].args = <<>>)
        => LET counter(obj) == Get(disappeared_counts, obj.track_id, 0) + 1
           IN  /\ frame_count' = frame_count + 1
               /\ tracked_objects'
                    = SelectSeq(tracked_objects, LAMBDA obj : counter(obj) <= max_disappeared)
               /\ DOMAIN disappeared_counts' = ActiveIds(tracked_objects')
               /\ \A i \in DOMAIN tracked_objects' :
                     disappeared_counts'[tracked_objects'[i].track_id]
                        = counter(tracked_objects'[i])
               /\ calls'[Len(calls')].returned = <<>>
               /\ UNCHANGED <<next_object_id, issued, unique_object_frequencies,
                              counted_objects, object_lifespans, seen_objects,
                              class_track_history, max_disappeared, iou_threshold,
                              spatial_threshold>>]_vars

\* C30 witness: with max_disappeared = 1, two tracks, one of them already
\* missed once, met an empty frame: the stale one was evicted, the other
\* has counter 1, nothing is returned, both stay counted.
C30_EmptyFrameEvictsOneOfTwo ==
    /\ max_disappeared = 1
    /\ frame_count = 3
    /\ Len(calls) = 3
    /\ calls[3].op = "update" /\ calls[3].args = <<>> /\ calls[3].returned = <<>>
    /\ next_object_id = 3
    /\ Len(tracked_objects) = 1
    /\ tracked_objects[1].track_id = 1
    /\ tracked_objects[1].last_seen_frame = 2
    /\ disappeared_counts = [id \in {1} |-> 1]
    /\ DOMAIN object_lifespans = {1, 2}
    /\ counted_objects = {1, 2}


\* iou_matrix[t, d] of the call just made: the box of the t-th active track
\* before the call against the box of the d-th detection
IouOfCall(p) == Iou(tracked_objects[p[1]].bbox, detections'[p[2]].box)

PairsOfCall == (1..Len(tracked_objects)) \X (1..Len(detections'))

\* C31: with iou_threshold <= 0.5 the matching of an update() call is maximal
\* and greedy: no track and detection that are both left unmatched have an IoU
\* above iou_threshold, and every pair with an IoU above iou_threshold that is
\* not matched has its track or its detection matched in a pair whose IoU is at
\* least as high.
C31_GreedyMatchingIsMaximal ==
    [][UpdateCalled /\ iou_threshold <= HighConfidenceIou =>
        \A matched_pairs \in MatchingsOfCall :
            /\ matched_pairs \subseteq PairsOfCall
            /\ \A p \in PairsOfCall :
                 IouAbove(IouOfCall(p), iou_threshold) /\ p \notin matched_pairs =>
                    /\ \/ \E q \in matched_pairs : q[1] = p[1]
                       \/ \E q \in matched_pairs : q[2] = p[2]
                    /\ \E q \in matched_pairs :
                         /\ q[1] = p[1] \/ q[2] = p[2]
                         /\ ~IouGreater(IouOfCall(p), IouOfCall(q))]_vars

\* iou_threshold = 0.2, cars at 0 and 100, then one car at 60: its IoU is 0.67
\* with the first track and 0.76 with the second, which takes it; the first
\* track is left unmatched
C31_BetterPairTakesDetection ==
    /\ iou_threshold = DefaultIouThreshold
    /\ frame_count = 2
    /\ Len(tracked_objects) = 2
    /\ tracked_objects[1].bbox = WideBoxAt(0)
    /\ tracked_objects[1].last_seen_frame = 1
    /\ tracked_objects[2].bbox = WideBoxAt(60)
    /\ tracked_objects[2].last_seen_frame = 2
    /\ Len(result) = 1

\* C32: whatever the configured iou_threshold, above 0.5 included, every pair
\* of a track and a detection matched by update() has an IoU strictly above
\* iou_threshold.
C32_MatchedPairsAboveThreshold ==
    [][UpdateCalled =>
        \A matched_pairs \in MatchingsOfCall :
            \A p \in matched_pairs : IouAbove(IouOfCall(p), iou_threshold)]_vars

\* iou_threshold = 0.7, a car at 0, then at 60: the IoU is 0.67 and the first
\* pass, which asks for more than 0.5, matches the pair
C32_MatchedBelowThreshold ==
    /\ iou_threshold = 70
    /\ frame_count = 2
    /\ Len(tracked_objects) = 1
    /\ tracked_objects[1].track_id = 1
    /\ tracked_objects[1].bbox = WideBoxAt(60)
    /\ tracked_objects[1].frames_tracked = 2
    /\ ReturnedIds(result) = {1}

\* The reference matcher of C33: pairs are taken one at a time, each time one
\* of the highest IoU among the candidates whose track and detection are both
\* free, until none is left; the result is the set of matchings over all ways
\* to break ties.
RECURSIVE SingleGreedyPass(_, _, _)
SingleGreedyPass(iou_matrix, cands, matched) ==
    LET free == {p \in cands : \A q \in matched : q[1] # p[1] /\ q[2] # p[2]}
        highest == {p \in free :
                      \A q \in free : ~IouGreater(iou_matrix[q], iou_matrix[p])}
    IN  IF free = {} THEN {matched}
        ELSE UNION {SingleGreedyPass(iou_matrix, cands, matched \cup {p}) :
                        p \in highest}

\* C33: for iou_threshold <= 0.5 the two-pass matcher gives, for the tracks and
\* detections of every update() call, the same possible sets of matched pairs
\* as a single greedy pass in descending IoU order over all pairs with an IoU
\* above iou_threshold (one set when no two candidate IoUs are equal).
C33_TwoPassesAsOneGreedyPass ==
    [][UpdateCalled /\ iou_threshold <= HighConfidenceIou
            /\ tracked_objects # <<>> /\ detections' # <<>> =>
        LET iou_matrix ==
                CalculateIouMatrix([t \in DOMAIN tracked_objects |-> tracked_objects[t].bbox],
                                   [d \in DOMAIN detections' |-> detections'[d].box])
            above == {p \in PairsOfCall : IouAbove(iou_matrix[p], iou_threshold)}
            single == SingleGreedyPass(iou_matrix, above, {})
        IN  /\ MatchDetections(iou_matrix, Len(tracked_objects), Len(detections'),
                               iou_threshold) = single
            /\ MatchingsOfCall # {}
            /\ MatchingsOfCall \subseteq single
            /\ (\A p, q \in above :
                    p # q => IouGreater(iou_matrix[p], iou_matrix[q])
                             \/ IouGreater(iou_matrix[q], iou_matrix[p]))
                => Cardinality(single) = 1]_vars

\* iou_threshold = 0.2, cars at 0 and 200, then at 60 and 300: the first pass
\* matches the first track (IoU 0.67), the second pass the second (IoU 0.5)
C33_OnePairFromEachPass ==
    /\ iou_threshold = DefaultIouThreshold
    /\ frame_count = 2
    /\ Len(tracked_objects) = 2
    /\ tracked_objects[1].bbox = WideBoxAt(60)
    /\ tracked_objects[2].bbox = WideBoxAt(300)
    /\ tracked_objects[1].frames_tracked = 2
    /\ tracked_objects[2].frames_tracked = 2

\* the union area of the boxes of pair p of the call just made
UnionOfCall(p) ==
    LET b1 == tracked_objects[p[1]].bbox
        b2 == detections'[p[2]].box
    IN  Area(b1) + Area(b2) - Intersection(b1, b2)

\* C34: a track box and a detection box whose union area is 0 have IoU 0; with
\* iou_threshold >= 0 the pair is not matched, and update() completes with one
\* result per detection, the detection left to the other tracks or to a new
\* track.
C34_EmptyUnionIsIouZero ==
    [][UpdateCalled /\ iou_threshold >= 0 =>
        LET empty == {p \in PairsOfCall : UnionOfCall(p) = 0}
            matchings == MatchingsOfCall
        IN  empty # {} =>
              /\ \A p \in empty : IouOfCall(p)[1] = 0
              /\ matchings # {}
              /\ \A matched_pairs \in matchings :
                   \A p \in empty :
                     /\ p \notin matched_pairs
                     /\ \/ \E q \in matched_pairs : q[2] = p[2]
                        \/ \E n \in NewIds :
                             /\ object_lifespans'[n].initial_position
                                    = Center(detections'[p[2]].box)
                             /\ object_lifespans'[n].class_name
                                    = detections'[p[2]].class_name
              /\ Len(result') = Len(detections')]_vars

\* a car in the inverted box <<200, 100, 100, 200>>, of area -10000, then a
\* car in the box <<100, 100, 200, 200>>, of area 10000: the union is 0, the
\* first track is left unmatched and the detection gets track 2
C34_InvertedTrackBesideProperBox ==
    /\ frame_count = 2
    /\ Len(tracked_objects) = 2
    /\ tracked_objects[1].bbox = <<200, 100, 100, 200>>
    /\ tracked_objects[1].last_seen_frame = 1
    /\ tracked_objects[2].bbox = BoxAt(100)
    /\ tracked_objects[2].track_id = 2
    /\ ReturnedIds(result) = {2}

\* C35: for every track of the active mapping, its disappearance counter is
\* the number of frames since it was last seen, frame_count - last_seen_frame
\* (0 for a track matched or created in the last call), and
\* first_seen_frame <= last_seen_frame <= frame_count.
C35_CounterIsFramesSinceLastSeen ==
    \A i \in DOMAIN tracked_objects :
        LET obj == tracked_objects[i]
        IN  /\ obj.track_id \in DOMAIN disappeared_counts
            /\ disappeared_counts[obj.track_id] = frame_count - obj.last_seen_frame
            /\ obj.first_seen_frame <= obj.last_seen_frame
            /\ obj.last_seen_frame <= frame_count

\* max_disappeared = 1: a track created at frame 1 and matched at frame 2 is
\* missed at frame 3 and stays, with counter 1, beside a track created then
C35_SeenTwiceThenMissedOnce ==
    /\ max_disappeared = 1
    /\ frame_count = 3
    /\ Len(tracked_objects) = 2
    /\ tracked_objects[1].first_seen_frame = 1
    /\ tracked_objects[1].last_seen_frame = 2
    /\ disappeared_counts[tracked_objects[1].track_id] = 1
    /\ tracked_objects[2].first_seen_frame = 3
    /\ disappeared_counts[tracked_objects[2].track_id] = 0

\* C36: with the default max_disappeared = 30 the recovery check never fires:
\* at every track creation no lifespan record is both of an evicted track and
\* born within the last 10 frames, so a track that is not counted was stopped
\* by the overlap check or by the rate limit; the recovery check fires only
\* under a max_disappeared of at most 8.
C36_NoRecoveryUnderDefault ==
    [][UpdateCalled =>
        \A n \in NewIds :
            /\ RecoveryFires(n) => max_disappeared <= 8
            /\ max_disappeared = DefaultMaxDisappeared =>
                 /\ ~RecoveryFires(n)
                 /\ \A id \in DOMAIN object_lifespans :
                      id \notin ActiveIds(tracked_objects) =>
                        object_lifespans[id].birth_frame
                            < frame_count' - DuplicateLookback
                 /\ ~object_lifespans'[n].counted =>
                        OverlapFires(n) \/ RateLimitFires(n)]_vars

\* default tracker: a car seen in frame 1 only is evicted at the end of frame
\* 32; a car in the same box at frame 33 gets track 2 and is counted
C36_CountedAgainAfterEviction ==
    /\ max_disappeared = DefaultMaxDisappeared
    /\ frame_count = 33
    /\ Len(tracked_objects) = 1
    /\ tracked_objects[1].track_id = 2
    /\ tracked_objects[1].bbox = BoxAt(100)
    /\ object_lifespans[1].birth_frame = 1
    /\ object_lifespans[1].initial_position = object_lifespans[2].initial_position
    /\ object_lifespans[2].counted
    /\ UniqueCount("car") = 2

\* the counted records of a class born in frames lo..hi
CountedBornIn(class_name, lo, hi) ==
    {track_id \in CountedRecords(class_name) :
        /\ object_lifespans[track_id].birth_frame >= lo
        /\ object_lifespans[track_id].birth_frame <= hi}

\* C37: for every class and every window of RateLimitWindow = 5 consecutive
\* frame numbers at most RateLimitCount = 3 counted lifespan records of the
\* class are born inside the window; the unique count of the class is the
\* number of its counted records, so it is at most 3 above the number of
\* those born before the last 5 calls, which was the count five calls ago.
C37_ThreeCountedPerFiveFrames ==
    \A class_name \in Classes :
        /\ \A w \in 1..frame_count :
             Cardinality(CountedBornIn(class_name, w, w + RateLimitWindow - 1))
                <= RateLimitCount
        /\ UniqueCount(class_name)
             = Cardinality(CountedBornIn(class_name, 1, frame_count))
        /\ UniqueCount(class_name)
             - Cardinality(CountedBornIn(class_name, 1, frame_count - RateLimitWindow))
                <= RateLimitCount

\* cars appearing in frames 1, 2, 3, 4 and 6: the fourth is not counted, the
\* fifth is, when only the cars of frames 2 and 3 are inside its window
C37_CountedAgainWhenWindowMoved ==
    /\ frame_count = 6
    /\ Len(tracked_objects) = 5
    /\ \A id \in 1..5 : object_lifespans[id].class_name = "car"
    /\ \A id \in 1..4 : object_lifespans[id].birth_frame = id
    /\ object_lifespans[5].birth_frame = 6
    /\ ~object_lifespans[4].counted
    /\ object_lifespans[5].counted
    /\ UniqueCount("car") = 4

\* C38: over an update() call no per-class unique count goes down, a count
\* changes only in a call that creates a track of the class, by the number of
\* tracks of the class the call creates and counts, and a track that exists
\* uncounted before the call is uncounted after it, matched or not.
C38_CountedAtCreationOrNever ==
    [][UpdateCalled =>
        /\ \A class_name \in Classes :
             /\ UniqueCount(class_name)' >= UniqueCount(class_name)
             /\ UniqueCount(class_name)' # UniqueCount(class_name) =>
                    \E n \in NewIds : object_lifespans'[n].class_name = class_name
             /\ UniqueCount(class_name)' - UniqueCount(class_name)
                    = Cardinality({n \in NewCounted :
                                     object_lifespans'[n].class_name = class_name})
        /\ \A id \in DOMAIN object_lifespans :
             /\ id \in DOMAIN object_lifespans'
             /\ object_lifespans'[id].counted = object_lifespans[id].counted
             /\ id \in counted_objects' <=> id \in counted_objects
             /\ id \in counted_objects <=> object_lifespans[id].counted]_vars

\* cars appearing in frames 1, 2, 3 and 4 and staying: the fourth, refused by
\* the rate limit, has been tracked for 4 frames at frame 7, when only one
\* counted car is left inside the window, and is still not counted
C38_StillUncountedAtFrameSeven ==
    /\ frame_count = 7
    /\ Len(tracked_objects) = 4
    /\ \A id \in 1..4 : /\ object_lifespans[id].class_name = "car"
                        /\ object_lifespans[id].birth_frame = id
    /\ tracked_objects[4].track_id = 4
    /\ tracked_objects[4].frames_tracked = 4
    /\ Cardinality(CountedBornIn("car", 3, 7)) = 1
    /\ ~object_lifespans[4].counted
    /\ 4 \notin counted_objects
    /\ UniqueCount("car") = 3

\* the record of active track obj meets every condition of the recovery check
\* for new track n but the one of not being active
RecoveryButActive(obj, n) ==
    LET old == object_lifespans[obj.track_id]
        new == object_lifespans'[n]
    IN  /\ old.class_name = new.class_name
        /\ old.counted
        /\ old.birth_frame >= frame_count' - DuplicateLookback
        /\ CloserThan(new.initial_position, old.initial_position, spatial_threshold)

\* C39: the steps of an update() call run in the order match-update, ageing,
\* creation, eviction.  A track that the call removes was left unmatched and
\* its counter exceeds max_disappeared in this call for the first time; it is
\* in the mapping when the call's tracks are created: a new track of its class
\* less than spatial_threshold from its center is not counted (overlap check),
\* and a new track that only its record would stop in the recovery check is
\* counted; it, and its counter, are gone after the call and its record stays.
C39_StaleTrackEvictedAfterCreations ==
    [][UpdateCalled =>
        \A i \in DOMAIN tracked_objects :
            LET obj == tracked_objects[i]
            IN  obj.track_id \notin ActiveIds(tracked_objects') =>
                  /\ Missed(obj) <= max_disappeared
                  /\ Missed(obj) + 1 > max_disappeared
                  /\ \A matched_pairs \in MatchingsOfCall :
                        \A p \in matched_pairs : p[1] # i
                  /\ \A n \in NewIds :
                        /\ /\ object_lifespans'[n].class_name = obj.class_name
                           /\ CloserThan(object_lifespans'[n].initial_position,
                                         obj.center, spatial_threshold)
                           => ~object_lifespans'[n].counted
                        /\ /\ RecoveryButActive(obj, n)
                           /\ ~OverlapFires(n)
                           /\ ~RateLimitFires(n)
                           /\ ~RecoveryFires(n)
                           => object_lifespans'[n].counted
                        /\ n > obj.track_id
                  /\ obj.track_id \notin DOMAIN disappeared_counts'
                  /\ obj.track_id \in DOMAIN object_lifespans'
                  /\ object_lifespans'[obj.track_id] = object_lifespans[obj.track_id]]_vars

\* max_disappeared = 0: cars at 100 and 170 (the second not counted), then a
\* car at 250: both tracks go stale and are removed by the call, whose new
\* track is not counted, being near the uncounted track at 170
C39_StoppedByTrackEvictedInTheCall ==
    /\ max_disappeared = 0
    /\ frame_count = 2
    /\ Len(tracked_objects) = 1
    /\ tracked_objects[1].track_id = 3
    /\ tracked_objects[1].bbox = BoxAt(250)
    /\ object_lifespans[1].counted
    /\ ~object_lifespans[2].counted
    /\ ~object_lifespans[3].counted
    /\ UniqueCount("car") = 1
=============================================================================
